---- MODULE Spec2Model ----
(***************************************************************************)
(* A model of the mobulator SM83 CPU core: the bit-field decoder, the      *)
(* register file, the flat memory, the instruction decoder and the         *)
(* execution engine (Cpu::run_next_instruction).                           *)
(*                                                                         *)
(* Values are naturals kept to their width: u8 in 0..255, u16 in 0..65535. *)
(* Memory is the 65536-byte array, represented by its non-zero cells (a    *)
(* function whose domain is the set of addresses holding a non-zero byte); *)
(* every other address reads 0, as in Memory::default().                   *)
(* A Result<u8>/Option<u8> is the byte, or None.                           *)
(***************************************************************************)
EXTENDS Integers, Sequences, FiniteSets, TLC

\* registers, memory: the Cpu.  status: what the last run_next_instruction
\* returned.  history: the Cpu before each instruction run so far.
\* overflow_checks: whether the build panics on integer overflow.
\* cycles: the cycle budget a caller looping on run_next_instruction has left.
VARIABLES registers, memory, status, history, overflow_checks, cycles

vars == <<registers, memory, status, history, overflow_checks, cycles>>

\* Number of instructions one behaviour runs.
MaxSteps == 2

\* The absent byte of an Option<u8> / the Err of a Result<u8>.
None == 0 - 1

(***************************************************************************)
(* Machine arithmetic.                                                     *)
(***************************************************************************)
wrapping_add_u8(v, w) == (v + w) % 256
wrapping_sub_u8(v, w) == (v - w) % 256
\* Mutation of wrapping_add_u16: the sum saturates at 0xFFFF.
saturating_add_u16(v, w) == IF v + w > 65535 THEN 65535 ELSE v + w

wrapping_add_u16(v, w) == (v + w) % 65536
wrapping_sub_u16(v, w) == (v - w) % 65536
\* `as i8`: the byte read as a two's-complement value.
as_i8(v) == IF v >= 128 THEN v - 256 ELSE v
\* `i8 as u8`, `i8 as u16` (sign-extending), `u16 as u8` (truncating).
i8_as_u8(s) == s % 256
i8_as_u16(s) == s % 65536
u16_as_u8(v) == v % 256
\* An addition of the displacement byte without its sign.
wrapping_add_unsigned_u16(v, s) == (v + (s % 256)) % 65536

wrapping_add_signed_u16(v, s) == (v + s) % 65536
\* overflowing_add / overflowing_sub: the wrapped value and whether it wrapped.
overflowing_add_u8(v, w) == [val |-> (v + w) % 256, overflow |-> v + w > 255]
overflowing_sub_u8(v, w) == [val |-> (v - w) % 256, overflow |-> v < w]
overflowing_add_u16(v, w) == [val |-> (v + w) % 65536, overflow |-> v + w > 65535]

RECURSIVE BitAnd(_, _)
BitAnd(v, w) ==
    IF v = 0 \/ w = 0 THEN 0
    ELSE (v % 2) * (w % 2) + 2 * BitAnd(v \div 2, w \div 2)

RECURSIVE BitOr(_, _)
BitOr(v, w) ==
    IF v = 0 THEN w
    ELSE IF w = 0 THEN v
    ELSE (IF v % 2 = 1 \/ w % 2 = 1 THEN 1 ELSE 0) + 2 * BitOr(v \div 2, w \div 2)

RECURSIVE BitXor(_, _)
BitXor(v, w) ==
    IF v = 0 THEN w
    ELSE IF w = 0 THEN v
    ELSE ((v + w) % 2) + 2 * BitXor(v \div 2, w \div 2)

BitNot_u8(v) == 255 - v
BitNot_u16(v) == 65535 - v
rotate_left_u8(v) == ((v * 2) % 256) + (v \div 128)
rotate_right_u8(v) == (v \div 2) + ((v % 2) * 128)

(***************************************************************************)
(* utils.rs                                                                *)
(***************************************************************************)
calc_nth_bit_power(bit) == 2 ^ bit

is_bit_set_u16(number, bit) == BitAnd(number, calc_nth_bit_power(bit)) # 0

is_bit_set_u8(number, bit) == BitAnd(number, calc_nth_bit_power(bit) % 256) # 0

half_carry_add_u8(v, w, carry) ==
    LET cin == IF carry THEN 1 ELSE 0
    IN  (BitAnd(v, 15) + BitAnd(w, 15) + cin) > 15

half_carry_sub_u8(v, w, carry) ==
    LET cin == IF carry THEN 1 ELSE 0
    IN  wrapping_sub_u8(wrapping_sub_u8(BitAnd(v, 15), BitAnd(w, 15)), cin) > 15

half_carry_add_u16(v, w) == (BitAnd(v, 4095) + BitAnd(w, 4095)) > 4095

\* The carry out of bit 15 of the 16-bit sum instead of bit 7 of the low bytes.
carry_u16_i8_bit15(v, s) == v + i8_as_u16(s) > 65535

carry_u16_i8(v, s) == BitAnd(v, 255) + BitAnd(i8_as_u16(s), 255) > 255

to_lowest_bit_set(v) == BitAnd(v, (256 - v) % 256)

\* BitExt for u8: the mask is truncated to a byte after the negation.
set_bit_u8(v, bit, value) ==
    IF value THEN BitOr(v, calc_nth_bit_power(bit) % 256)
    ELSE BitAnd(v, BitNot_u16(calc_nth_bit_power(bit)) % 256)

is_bit_set(v, bit) == is_bit_set_u16(v, bit)

set_bit_u16(v, bit, value) ==
    IF value THEN BitOr(v, calc_nth_bit_power(bit))
    ELSE BitAnd(v, BitNot_u16(calc_nth_bit_power(bit)))

\* Mutation of set_high: the byte lands in the low half of the pair.
set_high_into_low(pair, value) == BitOr(BitAnd(pair, 65280), value)

set_high(pair, value) == BitOr(BitAnd(pair, 255), value * 256)

\* A set_low that does not clear the byte it replaces.
set_low_unmasked(pair, value) == BitOr(pair, value)

set_low(pair, value) == BitOr(BitAnd(pair, 65280), value)

high_u8(pair) == pair \div 256

(***************************************************************************)
(* byte_instruction.rs                                                     *)
(***************************************************************************)
bi_x(byte) == byte \div 64
\* A y that keeps bits 7-6 above the three bits of the field.
bi_y_unmasked(byte) == byte \div 8

bi_y(byte) == BitAnd(byte, 63) \div 8
bi_z(byte) == BitAnd(byte, 7)
bi_p(byte) == BitAnd(byte \div 16, 3)
bi_q(byte) == is_bit_set_u8(byte, 3)
bi_cond(byte) == BitAnd(byte \div 8, 3)

(***************************************************************************)
(* registers.rs: the register file [af, bc, de, hl, sp, pc].               *)
(***************************************************************************)
reg_a(r) == high_u8(r.af)

\* A set_a that writes the whole pair, clearing F.
set_a_clearing_f(r, val) == [r EXCEPT !.af = val * 256]

set_a(r, val) == [r EXCEPT !.af = set_high(@, val)]

z_flg(r) == is_bit_set_u16(r.af, 7)
n_flg(r) == is_bit_set_u16(r.af, 6)
h_flg(r) == is_bit_set_u16(r.af, 5)
c_flg(r) == is_bit_set_u16(r.af, 4)

reg_b(r) == high_u8(r.bc)
reg_c(r) == u16_as_u8(r.bc)
reg_d(r) == high_u8(r.de)
reg_e(r) == u16_as_u8(r.de)
reg_h(r) == high_u8(r.hl)
reg_l(r) == u16_as_u8(r.hl)

\* The flag setters, flags() and the r16stk accessors are called by cpu.rs and
\* the conformance harness but are not in registers.rs; they follow the data
\* model: each setter writes its own bit of F (the bit its getter reads), and
\* the low nibble of F is never set, so a write of AF keeps bits 4-7 of F only.
set_z_flg(r, value) == [r EXCEPT !.af = set_bit_u16(@, 7, value)]
set_n_flg(r, value) == [r EXCEPT !.af = set_bit_u16(@, 6, value)]
set_h_flg(r, value) == [r EXCEPT !.af = set_bit_u16(@, 5, value)]
set_c_flg(r, value) == [r EXCEPT !.af = set_bit_u16(@, 4, value)]

flags(r) == u16_as_u8(r.af)

set_r16stk(r, r16, val) ==
    CASE r16 = "BC" -> [r EXCEPT !.bc = val]
      [] r16 = "DE" -> [r EXCEPT !.de = val]
      [] r16 = "HL" -> [r EXCEPT !.hl = val]
      [] r16 = "AF" -> [r EXCEPT !.af = BitAnd(val, 65520)]

get_r16stk(r, r16) ==
    CASE r16 = "BC" -> r.bc
      [] r16 = "DE" -> r.de
      [] r16 = "HL" -> r.hl
      [] r16 = "AF" -> r.af

set_r16(r, r16, val) ==
    CASE r16 = "BC" -> [r EXCEPT !.bc = val]
      [] r16 = "DE" -> [r EXCEPT !.de = val]
      [] r16 = "HL" -> [r EXCEPT !.hl = val]
      [] r16 = "SP" -> [r EXCEPT !.sp = val]

get_r16(r, r16) ==
    CASE r16 = "BC" -> r.bc
      [] r16 = "DE" -> r.de
      [] r16 = "HL" -> r.hl
      [] r16 = "SP" -> r.sp

\* `+=` and `-=` on a u16: a panic when the build checks overflow (debug and
\* test profiles), a wrap otherwise (release).
get_r16mem(r, r16) ==
    CASE r16 = "BC" -> [registers |-> r, val |-> r.bc, panic |-> FALSE]
      [] r16 = "DE" -> [registers |-> r, val |-> r.de, panic |-> FALSE]
      [] r16 = "HLI" ->
            IF r.hl = 65535 /\ overflow_checks
            THEN [registers |-> r, val |-> r.hl, panic |-> TRUE]
            ELSE [registers |-> [r EXCEPT !.hl = (r.hl + 1) % 65536],
                  val |-> r.hl, panic |-> FALSE]
      [] r16 = "HLD" ->
            IF r.hl = 0 /\ overflow_checks
            THEN [registers |-> r, val |-> r.hl, panic |-> TRUE]
            ELSE [registers |-> [r EXCEPT !.hl = (r.hl - 1) % 65536],
                  val |-> r.hl, panic |-> FALSE]

\* The selector conversions: Ok(selector), or the error of an encoding that
\* names no selector.
Ok(v) == [ok |-> TRUE, val |-> v]
Err(kind, v) == [ok |-> FALSE, val |-> v, kind |-> kind]

R8_try_from(value) ==
    CASE value = 0 -> Ok("B")
      [] value = 1 -> Ok("C")
      [] value = 2 -> Ok("D")
      [] value = 3 -> Ok("E")
      [] value = 4 -> Ok("H")
      [] value = 5 -> Ok("L")
      [] value = 7 -> Ok("A")
      [] OTHER -> Err("R8", value)

R16_try_from(value) ==
    CASE value = 0 -> Ok("BC")
      [] value = 1 -> Ok("DE")
      [] value = 2 -> Ok("HL")
      [] value = 3 -> Ok("SP")
      [] OTHER -> Err("R16", value)

R16Mem_try_from(value) ==
    CASE value = 0 -> Ok("BC")
      [] value = 1 -> Ok("DE")
      [] value = 2 -> Ok("HLI")
      [] value = 3 -> Ok("HLD")
      [] OTHER -> Err("R16Mem", value)

\* R16Stk and Cond: the discriminants of the #[repr(u8)] enums.
R16Stk_try_from(value) ==
    CASE value = 0 -> Ok("BC")
      [] value = 1 -> Ok("DE")
      [] value = 2 -> Ok("HL")
      [] value = 3 -> Ok("AF")
      [] OTHER -> Err("R16Stk", value)

Cond_try_from(value) ==
    CASE value = 0 -> Ok("NZ")
      [] value = 1 -> Ok("Z")
      [] value = 2 -> Ok("NC")
      [] value = 3 -> Ok("C")
      [] OTHER -> Err("Cond", value)

(***************************************************************************)
(* mobulator-macros: opcode_match!(pattern) is the set of bytes the        *)
(* pattern's run of `_` ranges over.  A pattern is its 8 characters.       *)
(***************************************************************************)
RECURSIVE from_str_radix_2(_)
from_str_radix_2(digits) ==
    IF digits = <<>> THEN 0
    ELSE 2 * from_str_radix_2(SubSeq(digits, 1, Len(digits) - 1))
         + (IF digits[Len(digits)] = "1" THEN 1 ELSE 0)

generate_instructions(bin_pat) ==
    LET range == {i \in 1..Len(bin_pat) : bin_pat[i] = "_"}
        min_i == CHOOSE i \in range : \A j \in range : i <= j
        max_i == CHOOSE i \in range : \A j \in range : j <= i
        step == 2 ^ (Len(bin_pat) - max_i)
        width == max_i - min_i + 1
        max_value == 2 ^ width
        stripped_binary == [i \in 1..Len(bin_pat) |->
                               IF bin_pat[i] = "_" THEN "0" ELSE bin_pat[i]]
        starting_val == from_str_radix_2(stripped_binary)
    IN  {starting_val + step * i : i \in 0..(max_value - 1)}

opcode_match(bin_pat) == generate_instructions(bin_pat)

(***************************************************************************)
(* The opcode literals of the `instructions` module, which instruction.rs  *)
(* imports but which is not among the source files: the SM83 encodings.    *)
(***************************************************************************)
instructions ==
    [NOOP |-> \h00, HALT |-> \h76, LD_IMM16_SP |-> \h08,
     RLCA |-> \h07, RRCA |-> \h0F, RLA |-> \h17, RRA |-> \h1F,
     DAA |-> \h27, CPL |-> \h2F, SCF |-> \h37, CCF |-> \h3F,
     JR_IMM8 |-> \h18,
     AND_A_IMM8 |-> \hE6, XOR_A_IMM8 |-> \hEE, OR_A_IMM8 |-> \hF6, CP_A_IMM8 |-> \hFE,
     RET |-> \hC9, RETI |-> \hD9, JP_IMM16 |-> \hC3, JP_HL |-> \hE9,
     CALL_IMM16 |-> \hCD, PREFIX |-> \hCB,
     LDH_C_A |-> \hE2, LDH_IMM8_A |-> \hE0, LD_IMM16_A |-> \hEA,
     LDH_A_C |-> \hF2, LDH_A_IMM8 |-> \hF0, LD_A_IMM16 |-> \hFA,
     ADD_SP_IMM8 |-> \hE8, LD_HL_SP_IMM8 |-> \hF8, LD_SP_HL |-> \hF9,
     DI |-> \hF3, EI |-> \hFB]

(***************************************************************************)
(* instruction.rs: an instruction is its variant (tag) and operands.       *)
(***************************************************************************)
Plain(tag) ==
    [tag |-> tag, reg |-> "-", cond |-> "-", carry |-> FALSE,
     src |-> "-", dst |-> "-", tgt3 |-> 0, bit |-> 0]

\* `reg: <conversion>?`: the conversion's error is the decoder's error.
WithReg(tag, conv, carry) ==
    IF conv.ok THEN Ok([Plain(tag) EXCEPT !.reg = conv.val, !.carry = carry])
    ELSE conv

WithCond(tag, conv) ==
    IF conv.ok THEN Ok([Plain(tag) EXCEPT !.cond = conv.val]) ELSE conv

WithBit(tag, bit, conv) ==
    IF conv.ok THEN Ok([Plain(tag) EXCEPT !.bit = bit, !.reg = conv.val])
    ELSE conv

LdR8R8_from(src, dst) ==
    IF ~src.ok THEN src
    ELSE IF ~dst.ok THEN dst
    ELSE Ok([Plain("LdR8R8") EXCEPT !.src = src.val, !.dst = dst.val])

Instruction_try_from(value) ==
    IF value = instructions.NOOP THEN Ok(Plain("Nop"))
    ELSE IF value = instructions.HALT THEN Ok(Plain("Halt"))
    ELSE IF value \in opcode_match(<<"0", "0", "_", "_", "0", "0", "0", "1">>)
        THEN WithReg("LdR16Imm16", R16_try_from(bi_p(value)), FALSE)
    ELSE IF value \in opcode_match(<<"0", "0", "_", "_", "0", "0", "1", "0">>)
        THEN WithReg("LdR16memA", R16Mem_try_from(bi_p(value)), FALSE)
    ELSE IF value \in opcode_match(<<"0", "0", "_", "_", "1", "0", "1", "0">>)
        THEN WithReg("LdAR16mem", R16Mem_try_from(bi_p(value)), FALSE)
    ELSE IF value = instructions.LD_IMM16_SP
        THEN Ok(Plain("LdImm16Sp"))
    ELSE IF value \in opcode_match(<<"0", "0", "_", "_", "0", "0", "1", "1">>)
        THEN WithReg("IncR16", R16_try_from(bi_p(value)), FALSE)
    ELSE IF value \in opcode_match(<<"0", "0", "_", "_", "1", "0", "1", "1">>)
        THEN WithReg("DecR16", R16_try_from(bi_p(value)), FALSE)
    ELSE IF value \in opcode_match(<<"0", "0", "_", "_", "1", "0", "0", "1">>)
        THEN WithReg("AddHlR16", R16_try_from(bi_p(value)), FALSE)
    ELSE IF value \in opcode_match(<<"0", "0", "_", "_", "_", "1", "0", "0">>)
        THEN WithReg("IncR8", R8_try_from(bi_y(value)), FALSE)
    ELSE IF value \in opcode_match(<<"0", "0", "_", "_", "_", "1", "0", "1">>)
        THEN WithReg("DecR8", R8_try_from(bi_y(value)), FALSE)
    ELSE IF value \in opcode_match(<<"0", "0", "_", "_", "_", "1", "1", "0">>)
        THEN WithReg("LdR8Imm8", R8_try_from(bi_y(value)), FALSE)
    ELSE IF value = instructions.RLCA
        THEN Ok(Plain("Rlca"))
    ELSE IF value = instructions.RRCA
        THEN Ok(Plain("Rrca"))
    ELSE IF value = instructions.RLA
        THEN Ok(Plain("Rla"))
    ELSE IF value = instructions.RRA
        THEN Ok(Plain("Rra"))
    ELSE IF value = instructions.DAA
        THEN Ok(Plain("Daa"))
    ELSE IF value = instructions.CPL
        THEN Ok(Plain("Cpl"))
    ELSE IF value = instructions.SCF
        THEN Ok(Plain("Scf"))
    ELSE IF value = instructions.CCF
        THEN Ok(Plain("Ccf"))
    ELSE IF value = instructions.JR_IMM8
        THEN Ok(Plain("JrImm8"))
    ELSE IF value \in opcode_match(<<"0", "0", "1", "_", "_", "0", "0", "0">>)
        THEN WithCond("JrCondImm8", Cond_try_from(bi_cond(value)))
    ELSE IF value \in opcode_match(<<"0", "1", "_", "_", "_", "_", "_", "_">>)
        THEN LdR8R8_from(R8_try_from(bi_z(value)), R8_try_from(bi_y(value)))
    ELSE IF value \in opcode_match(<<"1", "0", "0", "0", "_", "_", "_", "_">>)
        THEN WithReg("AddAR8", R8_try_from(bi_z(value)), bi_q(value))
    ELSE IF value \in opcode_match(<<"1", "0", "0", "1", "_", "_", "_", "_">>)
        THEN WithReg("SubAR8", R8_try_from(bi_z(value)), bi_q(value))
    ELSE IF value \in opcode_match(<<"1", "0", "1", "0", "0", "_", "_", "_">>)
        THEN WithReg("AndAR8", R8_try_from(bi_z(value)), FALSE)
    ELSE IF value \in opcode_match(<<"1", "0", "1", "0", "1", "_", "_", "_">>)
        THEN WithReg("XorAR8", R8_try_from(bi_z(value)), FALSE)
    ELSE IF value \in opcode_match(<<"1", "0", "1", "1", "0", "_", "_", "_">>)
        THEN WithReg("OrAR8", R8_try_from(bi_z(value)), FALSE)
    ELSE IF value \in opcode_match(<<"1", "0", "1", "1", "1", "_", "_", "_">>)
        THEN WithReg("CpAR8", R8_try_from(bi_z(value)), FALSE)
    ELSE IF value \in opcode_match(<<"1", "1", "0", "0", "_", "1", "1", "0">>)
        THEN Ok([Plain("AddAImm8") EXCEPT !.carry = bi_q(value)])
    ELSE IF value \in opcode_match(<<"1", "1", "0", "1", "_", "1", "1", "0">>)
        THEN Ok([Plain("SubAImm8") EXCEPT !.carry = bi_q(value)])
    ELSE IF value = instructions.AND_A_IMM8
        THEN Ok(Plain("AndAImm8"))
    ELSE IF value = instructions.XOR_A_IMM8
        THEN Ok(Plain("XorAImm8"))
    ELSE IF value = instructions.OR_A_IMM8
        THEN Ok(Plain("OrAImm8"))
    ELSE IF value = instructions.CP_A_IMM8
        THEN Ok(Plain("CpAImm8"))
    ELSE IF value \in opcode_match(<<"1", "1", "0", "_", "_", "0", "0", "0">>)
        THEN WithCond("RetCond", Cond_try_from(bi_cond(value)))
    ELSE IF value = instructions.RET
        THEN Ok(Plain("Ret"))
    ELSE IF value = instructions.RETI
        THEN Ok(Plain("Reti"))
    ELSE IF value \in opcode_match(<<"1", "1", "0", "_", "_", "0", "1", "0">>)
        THEN WithCond("JpCondImm16", Cond_try_from(bi_cond(value)))
    ELSE IF value = instructions.JP_IMM16
        THEN Ok(Plain("JpImm16"))
    ELSE IF value = instructions.JP_HL
        THEN Ok(Plain("JpHl"))
    ELSE IF value \in opcode_match(<<"1", "1", "0", "_", "_", "1", "0", "0">>)
        THEN WithCond("CallCondImm16", Cond_try_from(bi_cond(value)))
    ELSE IF value = instructions.CALL_IMM16
        THEN Ok(Plain("CallImm16"))
    ELSE IF value \in opcode_match(<<"1", "1", "_", "_", "_", "1", "1", "1">>)
        THEN Ok([Plain("RstTgt3") EXCEPT !.tgt3 = bi_y(value)])
    ELSE IF value \in opcode_match(<<"1", "1", "_", "_", "0", "0", "0", "1">>)
        THEN WithReg("PopR16stk", R16Stk_try_from(bi_p(value)), FALSE)
    ELSE IF value \in opcode_match(<<"1", "1", "_", "_", "0", "1", "0", "1">>)
        THEN WithReg("PushR16stk", R16Stk_try_from(bi_p(value)), FALSE)
    ELSE IF value = instructions.PREFIX
        THEN Ok(Plain("Prefix"))
    ELSE IF value = instructions.LDH_C_A
        THEN Ok(Plain("LdhCA"))
    ELSE IF value = instructions.LDH_IMM8_A
        THEN Ok(Plain("LdhImm8A"))
    ELSE IF value = instructions.LD_IMM16_A
        THEN Ok(Plain("LdImm16A"))
    ELSE IF value = instructions.LDH_A_C
        THEN Ok(Plain("LdhAC"))
    ELSE IF value = instructions.LDH_A_IMM8
        THEN Ok(Plain("LdhAImm8"))
    ELSE IF value = instructions.LD_A_IMM16
        THEN Ok(Plain("LdAImm16"))
    ELSE IF value = instructions.ADD_SP_IMM8
        THEN Ok(Plain("AddSpImm8"))
    ELSE IF value = instructions.LD_HL_SP_IMM8
        THEN Ok(Plain("LdHlSpImm8"))
    ELSE IF value = instructions.LD_SP_HL
        THEN Ok(Plain("LdSpHl"))
    ELSE IF value = instructions.DI
        THEN Ok(Plain("Di"))
    ELSE IF value = instructions.EI
        THEN Ok(Plain("Ei"))
    ELSE Err("unimplemented", value)

PrefixedInstruction_try_from(value) ==
    IF value \in opcode_match(<<"0", "0", "0", "0", "0", "_", "_", "_">>)
        THEN WithReg("RlcR8", R8_try_from(bi_z(value)), FALSE)
    ELSE IF value \in opcode_match(<<"0", "0", "0", "0", "1", "_", "_", "_">>)
        THEN WithReg("RrcR8", R8_try_from(bi_z(value)), FALSE)
    ELSE IF value \in opcode_match(<<"0", "0", "0", "1", "0", "_", "_", "_">>)
        THEN WithReg("RlR8", R8_try_from(bi_z(value)), FALSE)
    ELSE IF value \in opcode_match(<<"0", "0", "0", "1", "1", "_", "_", "_">>)
        THEN WithReg("RrR8", R8_try_from(bi_z(value)), FALSE)
    ELSE IF value \in opcode_match(<<"0", "0", "1", "0", "0", "_", "_", "_">>)
        THEN WithReg("SlaR8", R8_try_from(bi_z(value)), FALSE)
    ELSE IF value \in opcode_match(<<"0", "0", "1", "0", "1", "_", "_", "_">>)
        THEN WithReg("SraR8", R8_try_from(bi_z(value)), FALSE)
    ELSE IF value \in opcode_match(<<"0", "0", "1", "1", "0", "_", "_", "_">>)
        THEN WithReg("SwapR8", R8_try_from(bi_z(value)), FALSE)
    ELSE IF value \in opcode_match(<<"0", "0", "1", "1", "1", "_", "_", "_">>)
        THEN WithReg("SrlR8", R8_try_from(bi_z(value)), FALSE)
    ELSE IF value \in opcode_match(<<"0", "1", "_", "_", "_", "_", "_", "_">>)
        THEN WithBit("BitB3R8", bi_y(value), R8_try_from(bi_z(value)))
    ELSE IF value \in opcode_match(<<"1", "0", "_", "_", "_", "_", "_", "_">>)
        THEN WithBit("ResB3R8", bi_y(value), R8_try_from(bi_z(value)))
    ELSE IF value \in opcode_match(<<"1", "1", "_", "_", "_", "_", "_", "_">>)
        THEN WithBit("SetB3R8", bi_y(value), R8_try_from(bi_z(value)))
    ELSE Err("unimplemented", value)

\* The decoders are pure functions of the byte: tabulated once.
InstructionTable == [value \in 0..255 |-> Instruction_try_from(value)]
PrefixedInstructionTable == [value \in 0..255 |-> PrefixedInstruction_try_from(value)]

Instruction_cycles(instr) ==
    LET t == instr.tag
    IN  CASE t \in {"Nop", "Halt"} -> 1
          [] t = "LdR16Imm16" -> 3
          [] t \in {"LdR16memA", "LdAR16mem"} -> 2
          [] t = "LdImm16Sp" -> 5
          [] t \in {"IncR16", "DecR16", "AddHlR16"} -> 2
          [] t \in {"IncR8", "DecR8"} -> IF instr.reg = "HL" THEN 3 ELSE 1
          [] t = "LdR8Imm8" -> IF instr.reg = "HL" THEN 3 ELSE 2
          [] t \in {"Rlca", "Rrca", "Rla", "Rra", "Daa", "Cpl", "Scf", "Ccf"} -> 1
          [] t = "JrImm8" -> 3
          [] t = "JrCondImm8" -> 2
          [] t = "LdR8R8" -> IF instr.src = "HL" \/ instr.dst = "HL" THEN 2 ELSE 1
          [] t \in {"AddAR8", "SubAR8", "AndAR8", "XorAR8", "OrAR8", "CpAR8"} ->
                IF instr.reg = "HL" THEN 2 ELSE 1
          [] t \in {"AddAImm8", "SubAImm8", "AndAImm8", "XorAImm8",
                    "OrAImm8", "CpAImm8"} -> 2
          [] t = "RetCond" -> 2
          [] t \in {"Ret", "Reti"} -> 4
          [] t = "JpCondImm16" -> 3
          [] t = "JpImm16" -> 4
          [] t = "JpHl" -> 1
          [] t = "CallCondImm16" -> 3
          [] t = "CallImm16" -> 6
          [] t = "RstTgt3" -> 4
          [] t = "PopR16stk" -> 3
          [] t = "PushR16stk" -> 4
          [] t = "Prefix" -> 0
          [] t = "LdhCA" -> 2
          [] t = "LdhImm8A" -> 3
          [] t = "LdImm16A" -> 4
          [] t = "LdhAC" -> 2
          [] t = "LdhAImm8" -> 3
          [] t = "LdAImm16" -> 4
          [] t = "AddSpImm8" -> 4
          [] t = "LdHlSpImm8" -> 3
          [] t = "LdSpHl" -> 2
          [] t \in {"Di", "Ei"} -> 1

PrefixedInstruction_cycles(instr) ==
    LET t == instr.tag
    IN  CASE t \in {"RlcR8", "RrcR8", "RlR8", "RrR8", "SlaR8", "SraR8",
                    "SwapR8", "SrlR8"} -> IF instr.reg = "HL" THEN 4 ELSE 2
          [] t = "BitB3R8" -> IF instr.reg = "HL" THEN 3 ELSE 2
          [] t \in {"ResB3R8", "SetB3R8"} -> IF instr.reg = "HL" THEN 4 ELSE 2

(***************************************************************************)
(* memory.rs                                                               *)
(***************************************************************************)
MEM_SIZE == \hFFFF + 1

\* `.get(addr)` on the array: the byte, or the out-of-bounds error.
get_byte(m, addr) ==
    IF addr < MEM_SIZE THEN (IF addr \in DOMAIN m THEN m[addr] ELSE 0) ELSE None

\* A store that is also seen at the address 0x2000 above, as on hardware
\* whose echo region mirrors working memory.
set_byte_echoed(m, addr, value) ==
    LET echo == (addr + \h2000) % 65536
    IN  IF value = 0 THEN [k \in (DOMAIN m) \ {addr, echo} |-> m[k]]
        ELSE [k \in (DOMAIN m) \cup {addr, echo} |->
                 IF k \in {addr, echo} THEN value ELSE m[k]]

set_byte(m, addr, value) ==
    IF value = 0 THEN [k \in (DOMAIN m) \ {addr} |-> m[k]]
    ELSE [k \in (DOMAIN m) \cup {addr} |-> IF k = addr THEN value ELSE m[k]]

\* `addr + 1` on a u16: a panic at 0xFFFF when the build checks overflow,
\* after the low byte is stored; a wrap to 0x0000 otherwise.
set_u16(m, addr, value) ==
    LET high == value \div 256
        low == value % 256
        m1 == set_byte(m, addr, low)
    IN  IF addr = 65535 /\ overflow_checks
        THEN [memory |-> m1, panic |-> TRUE]
        ELSE [memory |-> set_byte(m1, (addr + 1) % 65536, high), panic |-> FALSE]

RECURSIVE load_instructions(_, _)
load_instructions(m, instrs) ==
    IF instrs = <<>> THEN m
    ELSE set_byte(load_instructions(m, SubSeq(instrs, 1, Len(instrs) - 1)),
                  Len(instrs) - 1, instrs[Len(instrs)])

\* The addresses of the interrupt-enable (0xFFFF) and interrupt-flag (0xFF0F)
\* registers.
INTERRUPT_ENABLE == 65535
INTERRUPT_FLAG == 65295

InterruptType_bit(it) ==
    CASE it = "Joypad" -> 4
      [] it = "Serial" -> 3
      [] it = "Timer" -> 2
      [] it = "LCD" -> 1
      [] it = "VBlank" -> 0

InterruptType_try_from(value) ==
    CASE value = 16 -> Ok("Joypad")
      [] value = 8 -> Ok("Serial")
      [] value = 4 -> Ok("Timer")
      [] value = 2 -> Ok("LCD")
      [] value = 1 -> Ok("VBlank")
      [] OTHER -> Err("InterruptType", value)

\* interrupt_to_run: the memory it leaves, and Ok(None), Ok(Some(it)) or
\* the Err of the conversion as a status.
interrupt_to_run(m) ==
    LET ienable == get_byte(m, INTERRUPT_ENABLE)
        iflag == get_byte(m, INTERRUPT_FLAG)
        priority == to_lowest_bit_set(BitAnd(ienable, iflag))
        it == InterruptType_try_from(priority)
    IN  IF priority = 0
        THEN [memory |-> m, status |-> [tag |-> "None", val |-> 0, kind |-> ""]]
        ELSE IF ~it.ok
        THEN [memory |-> m, status |-> [tag |-> "Err", val |-> it.val, kind |-> it.kind]]
        ELSE [memory |-> set_byte(m, INTERRUPT_FLAG,
                                  set_bit_u8(iflag, InterruptType_bit(it.val), FALSE)),
              status |-> [tag |-> "Some", val |-> InterruptType_bit(it.val),
                          kind |-> it.val]]

(***************************************************************************)
(* cpu.rs: Status, and the helpers of the execution engine.  An operation  *)
(* on the Cpu takes the registers r and the memory m and yields the new    *)
(* ones.                                                                   *)
(***************************************************************************)
Cycles(n) == [tag |-> "Cycles", val |-> n, kind |-> ""]
Prefix == [tag |-> "Prefix", val |-> 0, kind |-> ""]
\* An Err(anyhow::Error): its kind, and the value its message names.
Error(kind, v) == [tag |-> "Err", val |-> v, kind |-> kind]
\* The thread panicked: run_next_instruction did not return.
Panicked == [tag |-> "Panic", val |-> 0, kind |-> "overflow"]

Outcome(r, m, st) == [registers |-> r, memory |-> m, status |-> st]

\* A fetch that reads the byte at PC and leaves PC where it was.
next_peeking(r, m) == [registers |-> r, byte |-> get_byte(m, r.pc)]

\* Iterator::next: the byte at PC (None when the read fails); PC advances.
next(r, m) ==
    [registers |-> [r EXCEPT !.pc = wrapping_add_u16(@, 1)],
     byte |-> get_byte(m, r.pc)]

\* Mutation of imm16: the two bytes joined big-endian.
imm16_big_endian(r, m) ==
    LET first == next(r, m)
        second == next(first.registers, m)
    IN  IF first.byte = None THEN [registers |-> first.registers, val |-> None]
        ELSE IF second.byte = None
             THEN [registers |-> second.registers, val |-> None]
        ELSE [registers |-> second.registers,
              val |-> 256 * first.byte + second.byte]

imm16(r, m) ==
    LET first == next(r, m)
        second == next(first.registers, m)
    IN  IF first.byte = None THEN [registers |-> first.registers, val |-> None]
        ELSE IF second.byte = None
             THEN [registers |-> second.registers, val |-> None]
        ELSE [registers |-> second.registers,
              val |-> first.byte + 256 * second.byte]

imm8(r, m) ==
    LET n == next(r, m) IN [registers |-> n.registers, val |-> n.byte]

\* The i8 of imm8_signed is carried with its Option: None, or the signed byte.
imm8_signed(r, m) ==
    LET n == imm8(r, m)
    IN  [registers |-> n.registers, ok |-> n.val # None,
         val |-> IF n.val = None THEN 0 ELSE as_i8(n.val)]

push_stack_pc(r, m) ==
    LET r1 == [r EXCEPT !.sp = wrapping_sub_u16(@, 2)]
        w == set_u16(m, r1.sp, r1.pc)
    IN  [registers |-> r1, memory |-> w.memory, panic |-> w.panic]

\* A cond_met that tests the zero flag for the carry conditions too.
cond_met_on_zero(r, cond) ==
    CASE cond \in {"NZ", "NC"} -> ~z_flg(r)
      [] OTHER -> z_flg(r)

cond_met(r, cond) ==
    CASE cond = "NZ" -> ~z_flg(r)
      [] cond = "Z" -> z_flg(r)
      [] cond = "NC" -> ~c_flg(r)
      [] cond = "C" -> c_flg(r)

pop(r, m) ==
    LET low == get_byte(m, r.sp)
        high == get_byte(m, wrapping_add_u16(r.sp, 1))
    IN  IF low = None \/ high = None THEN [registers |-> r, val |-> None]
        ELSE [registers |-> [r EXCEPT !.sp = wrapping_add_u16(@, 2)],
              val |-> high * 256 + low]

push(r, m, val) ==
    LET high == val \div 256
        low == val % 256
        m1 == set_byte(m, wrapping_sub_u16(r.sp, 1), high)
        m2 == set_byte(m1, wrapping_sub_u16(r.sp, 2), low)
    IN  [registers |-> [r EXCEPT !.sp = wrapping_sub_u16(@, 2)], memory |-> m2]

get_r8(r, m, r8) ==
    CASE r8 = "B" -> reg_b(r)
      [] r8 = "C" -> reg_c(r)
      [] r8 = "D" -> reg_d(r)
      [] r8 = "E" -> reg_e(r)
      [] r8 = "H" -> reg_h(r)
      [] r8 = "L" -> reg_l(r)
      [] r8 = "A" -> reg_a(r)
      [] r8 = "HL" -> get_byte(m, r.hl)

set_r8(r, m, r8, value) ==
    CASE r8 = "B" -> [registers |-> [r EXCEPT !.bc = set_high(@, value)], memory |-> m]
      [] r8 = "C" -> [registers |-> [r EXCEPT !.bc = set_low(@, value)], memory |-> m]
      [] r8 = "D" -> [registers |-> [r EXCEPT !.de = set_high(@, value)], memory |-> m]
      [] r8 = "E" -> [registers |-> [r EXCEPT !.de = set_low(@, value)], memory |-> m]
      [] r8 = "H" -> [registers |-> [r EXCEPT !.hl = set_high(@, value)], memory |-> m]
      [] r8 = "L" -> [registers |-> [r EXCEPT !.hl = set_low(@, value)], memory |-> m]
      [] r8 = "A" -> [registers |-> [r EXCEPT !.af = set_high(@, value)], memory |-> m]
      [] r8 = "HL" -> [registers |-> r, memory |-> set_byte(m, r.hl, value)]

inc_or_dec(value, add) ==
    IF add
    THEN [val |-> wrapping_add_u8(value, 1), carry |-> half_carry_add_u8(value, 1, FALSE)]
    ELSE [val |-> wrapping_sub_u8(value, 1), carry |-> half_carry_sub_u8(value, 1, FALSE)]

(***************************************************************************)
(* cpu.rs: the arms of Cpu::run_8bit_opcode.  Each takes the registers     *)
(* after the opcode fetch, the memory and the decoded instruction.         *)
(***************************************************************************)
\* The end of the match: Ok(Status::Cycles(instruction.cycles())).
Fall(r, m, instr) == Outcome(r, m, Cycles(Instruction_cycles(instr)))

\* `?` on a failed fetch or read.
Fail(r, m, what) == Outcome(r, m, Error(what, 0))

SetZNHC(r, zf, nf, hf, cf) ==
    set_c_flg(set_h_flg(set_n_flg(set_z_flg(r, zf), nf), hf), cf)

LdR16Imm16(r, m, instr) ==
    LET data == imm16(r, m)
    IN  IF data.val = None THEN Fail(data.registers, m, "imm16")
        ELSE Fall(set_r16(data.registers, instr.reg, data.val), m, instr)

LdR16memA(r, m, instr) ==
    LET g == get_r16mem(r, instr.reg)
    IN  IF g.panic THEN Outcome(g.registers, m, Panicked)
        ELSE Fall(g.registers, set_byte(m, g.val, reg_a(g.registers)), instr)

LdAR16mem(r, m, instr) ==
    LET g == get_r16mem(r, instr.reg)
        data == get_byte(m, g.val)
    IN  IF g.panic THEN Outcome(g.registers, m, Panicked)
        ELSE IF data = None THEN Fail(g.registers, m, "get_byte")
        ELSE Fall(set_a(g.registers, data), m, instr)

LdImm16Sp(r, m, instr) ==
    LET addr == imm16(r, m)
        r1 == addr.registers
        high == r1.sp \div 256
        low == r1.sp % 256
        m1 == set_byte(m, addr.val, low)
    IN  IF addr.val = None THEN Fail(r1, m, "imm16")
        ELSE IF addr.val = 65535 /\ overflow_checks THEN Outcome(r1, m1, Panicked)
        ELSE Fall(r1, set_byte(m1, (addr.val + 1) % 65536, high), instr)

IncR16(r, m, instr) ==
    Fall(set_r16(r, instr.reg, wrapping_add_u16(get_r16(r, instr.reg), 1)), m, instr)

DecR16(r, m, instr) ==
    Fall(set_r16(r, instr.reg, wrapping_sub_u16(get_r16(r, instr.reg), 1)), m, instr)

AddHlR16(r, m, instr) ==
    LET reg_val == get_r16(r, instr.reg)
        sum == overflowing_add_u16(r.hl, reg_val)
        result == sum.val
        overflow == sum.overflow
        r1 == set_c_flg(set_h_flg(set_n_flg(r, FALSE),
                                  half_carry_add_u16(reg_val, r.hl)), overflow)
    IN  Fall([r1 EXCEPT !.hl = result], m, instr)

IncDecR8(r, m, instr) ==
    LET val == get_r8(r, m, instr.reg)
        is_add == instr.tag = "IncR8"
        res == inc_or_dec(val, is_add)
        w == set_r8(r, m, instr.reg, res.val)
        r1 == set_h_flg(set_n_flg(set_z_flg(w.registers, res.val = 0), ~is_add),
                        res.carry)
    IN  IF val = None THEN Fail(r, m, "get_byte")
        ELSE Fall(r1, w.memory, instr)

LdR8Imm8(r, m, instr) ==
    LET value == imm8(r, m)
        w == set_r8(value.registers, m, instr.reg, value.val)
    IN  IF value.val = None THEN Fail(value.registers, m, "imm8")
        ELSE Fall(w.registers, w.memory, instr)

Rlca(r, m, instr) ==
    LET rotated == rotate_left_u8(reg_a(r))
    IN  Fall(SetZNHC(set_a(r, rotated), FALSE, FALSE, FALSE, is_bit_set(rotated, 0)),
             m, instr)

Rrca(r, m, instr) ==
    LET acc == reg_a(r)
        rotated == rotate_right_u8(acc)
    IN  Fall(SetZNHC(set_a(r, rotated), FALSE, FALSE, FALSE, is_bit_set(acc, 0)),
             m, instr)

Rla(r, m, instr) ==
    LET acc == reg_a(r)
        rotated == set_bit_u8(rotate_left_u8(acc), 0, c_flg(r))
    IN  Fall(SetZNHC(set_a(r, rotated), FALSE, FALSE, FALSE, is_bit_set(acc, 7)),
             m, instr)

Rra(r, m, instr) ==
    LET acc == reg_a(r)
        rotated == set_bit_u8(rotate_right_u8(acc), 7, c_flg(r))
    IN  Fall(SetZNHC(set_a(r, rotated), FALSE, FALSE, FALSE, is_bit_set(acc, 0)),
             m, instr)

\* Mutation of Daa: the high correction looks at the carry flag only.
Daa_carry_only(r, m, instr) ==
    LET acc == reg_a(r)
        first_digit == BitAnd(acc, 15)
        subtract == n_flg(r)
        low_fix == (~subtract /\ first_digit > 9) \/ h_flg(r)
        carry == c_flg(r)
        offset == (IF low_fix THEN 6 ELSE 0) + (IF carry THEN \h60 ELSE 0)
        val == IF subtract THEN wrapping_sub_u8(acc, offset)
               ELSE wrapping_add_u8(acc, offset)
    IN  Fall(set_c_flg(set_h_flg(set_z_flg(set_a(r, val), val = 0), FALSE), carry),
             m, instr)

Daa(r, m, instr) ==
    LET acc == reg_a(r)
        first_digit == BitAnd(acc, 15)
        subtract == n_flg(r)
        low_fix == (~subtract /\ first_digit > 9) \/ h_flg(r)
        carry == (~subtract /\ acc > \h99) \/ c_flg(r)
        offset == (IF low_fix THEN 6 ELSE 0) + (IF carry THEN \h60 ELSE 0)
        val == IF subtract THEN wrapping_sub_u8(acc, offset)
               ELSE wrapping_add_u8(acc, offset)
    IN  Fall(set_c_flg(set_h_flg(set_z_flg(set_a(r, val), val = 0), FALSE), carry),
             m, instr)

Cpl(r, m, instr) ==
    Fall(set_h_flg(set_n_flg(set_a(r, BitNot_u8(reg_a(r))), TRUE), TRUE), m, instr)

Scf(r, m, instr) ==
    Fall(set_c_flg(set_h_flg(set_n_flg(r, FALSE), FALSE), TRUE), m, instr)

Ccf(r, m, instr) ==
    LET r1 == set_h_flg(set_n_flg(r, FALSE), FALSE)
    IN  Fall(set_c_flg(r1, ~c_flg(r1)), m, instr)

JrImm8(r, m, instr) ==
    LET d == imm8_signed(r, m)
        r1 == d.registers
    IN  IF ~d.ok THEN Fail(r1, m, "imm8")
        ELSE Fall([r1 EXCEPT !.pc = wrapping_add_signed_u16(@, d.val)], m, instr)

JrCondImm8(r, m, instr) ==
    LET d == imm8_signed(r, m)
        r1 == d.registers
    IN  IF ~d.ok THEN Fail(r1, m, "imm8")
        ELSE IF cond_met(r1, instr.cond)
        THEN Outcome([r1 EXCEPT !.pc = wrapping_add_signed_u16(@, d.val)], m, Cycles(3))
        ELSE Fall(r1, m, instr)

LdR8R8(r, m, instr) ==
    LET val == get_r8(r, m, instr.src)
        w == set_r8(r, m, instr.dst, val)
    IN  IF instr.src = instr.dst THEN Fall(r, m, instr)
        ELSE IF val = None THEN Fail(r, m, "get_byte")
        ELSE Fall(w.registers, w.memory, instr)

\* The optional second step of an add or subtract with carry-in.
CarryStep(first, cin, stepped) ==
    IF cin THEN [val |-> stepped.val, overflow |-> first.overflow \/ stepped.overflow]
    ELSE first

AddAR8(r, m, instr) ==
    LET reg_val == get_r8(r, m, instr.reg)
        acc == reg_a(r)
        cin == instr.carry /\ c_flg(r)
        first == overflowing_add_u8(reg_val, acc)
        res == CarryStep(first, cin, overflowing_add_u8(first.val, 1))
        new_val == res.val
        overflow == res.overflow
    IN  IF reg_val = None THEN Fail(r, m, "get_byte")
        ELSE Fall(SetZNHC(set_a(r, new_val), new_val = 0, FALSE,
                          half_carry_add_u8(reg_val, acc, cin), overflow), m, instr)

SubAR8(r, m, instr) ==
    LET reg_val == get_r8(r, m, instr.reg)
        acc == reg_a(r)
        cin == instr.carry /\ c_flg(r)
        first == overflowing_sub_u8(acc, reg_val)
        res == CarryStep(first, cin, overflowing_sub_u8(first.val, 1))
        new_val == res.val
        overflow == res.overflow
    IN  IF reg_val = None THEN Fail(r, m, "get_byte")
        ELSE Fall(SetZNHC(set_a(r, new_val), new_val = 0, TRUE,
                          half_carry_sub_u8(acc, reg_val, cin), overflow), m, instr)

AndAR8(r, m, instr) ==
    LET reg_val == get_r8(r, m, instr.reg)
        new_val == BitAnd(reg_val, reg_a(r))
    IN  IF reg_val = None THEN Fail(r, m, "get_byte")
        ELSE Fall(SetZNHC(set_a(r, new_val), new_val = 0, FALSE, TRUE, FALSE), m, instr)

XorAR8(r, m, instr) ==
    LET reg_val == get_r8(r, m, instr.reg)
        new_val == BitXor(reg_val, reg_a(r))
    IN  IF reg_val = None THEN Fail(r, m, "get_byte")
        ELSE Fall(SetZNHC(set_a(r, new_val), new_val = 0, FALSE, FALSE, FALSE), m, instr)

OrAR8(r, m, instr) ==
    LET reg_val == get_r8(r, m, instr.reg)
        new_val == BitOr(reg_val, reg_a(r))
    IN  IF reg_val = None THEN Fail(r, m, "get_byte")
        ELSE Fall(SetZNHC(set_a(r, new_val), new_val = 0, FALSE, FALSE, FALSE), m, instr)

CpAR8(r, m, instr) ==
    LET reg_val == get_r8(r, m, instr.reg)
        acc == reg_a(r)
    IN  IF reg_val = None THEN Fail(r, m, "get_byte")
        ELSE Fall(SetZNHC(r, reg_val = acc, TRUE,
                          half_carry_sub_u8(acc, reg_val, FALSE),
                          overflowing_sub_u8(acc, reg_val).overflow),
                  m, instr)

AddAImm8(r, m, instr) ==
    LET i8 == imm8(r, m)
        r1 == i8.registers
        acc == reg_a(r1)
        cin == instr.carry /\ c_flg(r1)
        first == overflowing_add_u8(acc, i8.val)
        res == CarryStep(first, cin, overflowing_add_u8(first.val, 1))
        new_val == res.val
        overflow == res.overflow
    IN  IF i8.val = None THEN Fail(r1, m, "imm8")
        ELSE Fall(SetZNHC(set_a(r1, new_val), new_val = 0, FALSE,
                          half_carry_add_u8(acc, i8.val, cin), overflow), m, instr)

SubAImm8(r, m, instr) ==
    LET i8 == imm8(r, m)
        r1 == i8.registers
        acc == reg_a(r1)
        cin == instr.carry /\ c_flg(r1)
        first == overflowing_sub_u8(acc, i8.val)
        res == CarryStep(first, cin, overflowing_sub_u8(first.val, 1))
        new_val == res.val
        overflow == res.overflow
    IN  IF i8.val = None THEN Fail(r1, m, "imm8")
        ELSE Fall(SetZNHC(set_a(r1, new_val), new_val = 0, TRUE,
                          half_carry_sub_u8(acc, i8.val, cin), overflow), m, instr)

AndAImm8(r, m, instr) ==
    LET i8 == imm8(r, m)
        r1 == i8.registers
        new_val == BitAnd(reg_a(r1), i8.val)
    IN  IF i8.val = None THEN Fail(r1, m, "imm8")
        ELSE Fall(SetZNHC(set_a(r1, new_val), new_val = 0, FALSE, TRUE, FALSE), m, instr)

XorAImm8(r, m, instr) ==
    LET i8 == imm8(r, m)
        r1 == i8.registers
        new_val == BitXor(reg_a(r1), i8.val)
    IN  IF i8.val = None THEN Fail(r1, m, "imm8")
        ELSE Fall(SetZNHC(set_a(r1, new_val), new_val = 0, FALSE, FALSE, FALSE), m, instr)

OrAImm8(r, m, instr) ==
    LET i8 == imm8(r, m)
        r1 == i8.registers
        new_val == BitOr(reg_a(r1), i8.val)
    IN  IF i8.val = None THEN Fail(r1, m, "imm8")
        ELSE Fall(SetZNHC(set_a(r1, new_val), new_val = 0, FALSE, FALSE, FALSE), m, instr)

CpAImm8(r, m, instr) ==
    LET i8 == imm8(r, m)
        r1 == i8.registers
        acc == reg_a(r1)
    IN  IF i8.val = None THEN Fail(r1, m, "imm8")
        ELSE Fall(SetZNHC(r1, i8.val = acc, TRUE,
                          half_carry_sub_u8(acc, i8.val, FALSE),
                          overflowing_sub_u8(acc, i8.val).overflow),
                  m, instr)

\* Mutation of RetCond: a taken return reports the baseline count.
RetCond_baseline(r, m, instr) ==
    LET val == pop(r, m)
    IN  IF cond_met(r, instr.cond)
        THEN IF val.val = None THEN Fail(val.registers, m, "get_byte")
             ELSE Fall([val.registers EXCEPT !.pc = val.val], m, instr)
        ELSE Fall(r, m, instr)

RetCond(r, m, instr) ==
    LET val == pop(r, m)
    IN  IF cond_met(r, instr.cond)
        THEN IF val.val = None THEN Fail(val.registers, m, "get_byte")
             ELSE Outcome([val.registers EXCEPT !.pc = val.val], m, Cycles(5))
        ELSE Fall(r, m, instr)

\* Ret and Reti: the same arm body.
Ret(r, m, instr) ==
    LET val == pop(r, m)
    IN  IF val.val = None THEN Fail(val.registers, m, "get_byte")
        ELSE Fall([val.registers EXCEPT !.pc = val.val], m, instr)

JpCondImm16(r, m, instr) ==
    LET i16 == imm16(r, m)
        r1 == i16.registers
    IN  IF i16.val = None THEN Fail(r1, m, "imm16")
        ELSE IF cond_met(r1, instr.cond)
        THEN Outcome([r1 EXCEPT !.pc = i16.val], m, Cycles(4))
        ELSE Fall(r1, m, instr)

JpImm16(r, m, instr) ==
    LET i16 == imm16(r, m)
    IN  IF i16.val = None THEN Fail(i16.registers, m, "imm16")
        ELSE Fall([i16.registers EXCEPT !.pc = i16.val], m, instr)

JpHl(r, m, instr) == Fall([r EXCEPT !.pc = r.hl], m, instr)

CallCondImm16(r, m, instr) ==
    LET i16 == imm16(r, m)
        r1 == i16.registers
        ps == push_stack_pc(r1, m)
    IN  IF i16.val = None THEN Fail(r1, m, "imm16")
        ELSE IF cond_met(r1, instr.cond)
        THEN IF ps.panic THEN Outcome(ps.registers, ps.memory, Panicked)
             ELSE Outcome([ps.registers EXCEPT !.pc = i16.val], ps.memory, Cycles(6))
        ELSE Fall(r1, m, instr)

CallImm16(r, m, instr) ==
    LET i16 == imm16(r, m)
        ps == push_stack_pc(i16.registers, m)
    IN  IF i16.val = None THEN Fail(i16.registers, m, "imm16")
        ELSE IF ps.panic THEN Outcome(ps.registers, ps.memory, Panicked)
        ELSE Fall([ps.registers EXCEPT !.pc = i16.val], ps.memory, instr)

RstTgt3(r, m, instr) ==
    LET ps == push_stack_pc(r, m)
        addr == instr.tgt3 * 8
    IN  IF ps.panic THEN Outcome(ps.registers, ps.memory, Panicked)
        ELSE Fall([ps.registers EXCEPT !.pc = addr], ps.memory, instr)

PopR16stk(r, m, instr) ==
    LET val == pop(r, m)
    IN  IF val.val = None THEN Fail(val.registers, m, "get_byte")
        ELSE Fall(set_r16stk(val.registers, instr.reg, val.val), m, instr)

PushR16stk(r, m, instr) ==
    LET w == push(r, m, get_r16stk(r, instr.reg))
    IN  Fall(w.registers, w.memory, instr)

LdhCA(r, m, instr) ==
    Fall(r, set_byte(m, \hFF00 + reg_c(r), reg_a(r)), instr)

LdhImm8A(r, m, instr) ==
    LET i8 == imm8(r, m)
        r1 == i8.registers
    IN  IF i8.val = None THEN Fail(r1, m, "imm8")
        ELSE Fall(r1, set_byte(m, \hFF00 + i8.val, reg_a(r1)), instr)

LdImm16A(r, m, instr) ==
    LET addr == imm16(r, m)
        r1 == addr.registers
    IN  IF addr.val = None THEN Fail(r1, m, "imm16")
        ELSE Fall(r1, set_byte(m, addr.val, reg_a(r1)), instr)

LdhAC(r, m, instr) ==
    LET val == get_byte(m, \hFF00 + reg_c(r))
    IN  IF val = None THEN Fail(r, m, "get_byte") ELSE Fall(set_a(r, val), m, instr)

LdhAImm8(r, m, instr) ==
    LET i8 == imm8(r, m)
        r1 == i8.registers
        val == get_byte(m, \hFF00 + i8.val)
    IN  IF i8.val = None THEN Fail(r1, m, "imm8")
        ELSE IF val = None THEN Fail(r1, m, "get_byte")
        ELSE Fall(set_a(r1, val), m, instr)

LdAImm16(r, m, instr) ==
    LET addr == imm16(r, m)
        r1 == addr.registers
        val == get_byte(m, addr.val)
    IN  IF addr.val = None THEN Fail(r1, m, "imm16")
        ELSE IF val = None THEN Fail(r1, m, "get_byte")
        ELSE Fall(set_a(r1, val), m, instr)

AddSpImm8(r, m, instr) ==
    LET i8 == imm8_signed(r, m)
        r1 == i8.registers
        new_val == wrapping_add_signed_u16(r1.sp, i8.val)
        r2 == SetZNHC(r1, FALSE, FALSE,
                      half_carry_add_u8(u16_as_u8(r1.sp), i8_as_u8(i8.val), FALSE),
                      carry_u16_i8(r1.sp, i8.val))
    IN  IF ~i8.ok THEN Fail(r1, m, "imm8")
        ELSE Fall([r2 EXCEPT !.sp = new_val], m, instr)

LdHlSpImm8(r, m, instr) ==
    LET i8 == imm8_signed(r, m)
        r1 == i8.registers
        r2 == [r1 EXCEPT !.hl = wrapping_add_signed_u16(r1.sp, i8.val)]
    IN  IF ~i8.ok THEN Fail(r1, m, "imm8")
        ELSE Fall(SetZNHC(r2, FALSE, FALSE,
                          half_carry_add_u8(u16_as_u8(r2.sp), i8_as_u8(i8.val), FALSE),
                          carry_u16_i8(r2.sp, i8.val)), m, instr)

LdSpHl(r, m, instr) == Fall([r EXCEPT !.sp = r.hl], m, instr)

\* The match of run_8bit_opcode; its default arm (Halt, Di, Ei) bails out with
\* the instruction byte.
match_8bit(r, m, instruction_byte, instr) ==
    CASE instr.tag = "Nop" -> Fall(r, m, instr)
      [] instr.tag = "LdR16Imm16" -> LdR16Imm16(r, m, instr)
      [] instr.tag = "LdR16memA" -> LdR16memA(r, m, instr)
      [] instr.tag = "LdAR16mem" -> LdAR16mem(r, m, instr)
      [] instr.tag = "LdImm16Sp" -> LdImm16Sp(r, m, instr)
      [] instr.tag = "IncR16" -> IncR16(r, m, instr)
      [] instr.tag = "DecR16" -> DecR16(r, m, instr)
      [] instr.tag = "AddHlR16" -> AddHlR16(r, m, instr)
      [] instr.tag = "LdR8Imm8" -> LdR8Imm8(r, m, instr)
      [] instr.tag = "Rlca" -> Rlca(r, m, instr)
      [] instr.tag = "Rrca" -> Rrca(r, m, instr)
      [] instr.tag = "Rla" -> Rla(r, m, instr)
      [] instr.tag = "Rra" -> Rra(r, m, instr)
      [] instr.tag = "Daa" -> Daa(r, m, instr)
      [] instr.tag = "Cpl" -> Cpl(r, m, instr)
      [] instr.tag = "Scf" -> Scf(r, m, instr)
      [] instr.tag = "Ccf" -> Ccf(r, m, instr)
      [] instr.tag = "JrImm8" -> JrImm8(r, m, instr)
      [] instr.tag = "JrCondImm8" -> JrCondImm8(r, m, instr)
      [] instr.tag = "LdR8R8" -> LdR8R8(r, m, instr)
      [] instr.tag = "AddAR8" -> AddAR8(r, m, instr)
      [] instr.tag = "SubAR8" -> SubAR8(r, m, instr)
      [] instr.tag = "AndAR8" -> AndAR8(r, m, instr)
      [] instr.tag = "XorAR8" -> XorAR8(r, m, instr)
      [] instr.tag = "OrAR8" -> OrAR8(r, m, instr)
      [] instr.tag = "CpAR8" -> CpAR8(r, m, instr)
      [] instr.tag = "AddAImm8" -> AddAImm8(r, m, instr)
      [] instr.tag = "SubAImm8" -> SubAImm8(r, m, instr)
      [] instr.tag = "AndAImm8" -> AndAImm8(r, m, instr)
      [] instr.tag = "XorAImm8" -> XorAImm8(r, m, instr)
      [] instr.tag = "OrAImm8" -> OrAImm8(r, m, instr)
      [] instr.tag = "CpAImm8" -> CpAImm8(r, m, instr)
      [] instr.tag = "RetCond" -> RetCond(r, m, instr)
      [] instr.tag = "JpCondImm16" -> JpCondImm16(r, m, instr)
      [] instr.tag = "JpImm16" -> JpImm16(r, m, instr)
      [] instr.tag = "JpHl" -> JpHl(r, m, instr)
      [] instr.tag = "CallCondImm16" -> CallCondImm16(r, m, instr)
      [] instr.tag = "CallImm16" -> CallImm16(r, m, instr)
      [] instr.tag = "RstTgt3" -> RstTgt3(r, m, instr)
      [] instr.tag = "PopR16stk" -> PopR16stk(r, m, instr)
      [] instr.tag = "PushR16stk" -> PushR16stk(r, m, instr)
      [] instr.tag = "LdhCA" -> LdhCA(r, m, instr)
      [] instr.tag = "LdhImm8A" -> LdhImm8A(r, m, instr)
      [] instr.tag = "LdImm16A" -> LdImm16A(r, m, instr)
      [] instr.tag = "LdhAC" -> LdhAC(r, m, instr)
      [] instr.tag = "LdhAImm8" -> LdhAImm8(r, m, instr)
      [] instr.tag = "LdAImm16" -> LdAImm16(r, m, instr)
      [] instr.tag = "AddSpImm8" -> AddSpImm8(r, m, instr)
      [] instr.tag = "LdHlSpImm8" -> LdHlSpImm8(r, m, instr)
      [] instr.tag = "LdSpHl" -> LdSpHl(r, m, instr)
      [] instr.tag \in {"IncR8", "DecR8"} -> IncDecR8(r, m, instr)
      [] instr.tag \in {"Ret", "Reti"} -> Ret(r, m, instr)
      [] instr.tag = "Prefix" -> Outcome(r, m, Prefix)
      [] OTHER -> Outcome(r, m, Error("unimplemented", instruction_byte))

\* `Instruction::try_from(instruction_byte)?`, then the match.
decode_8bit(r, m, instruction_byte, dec) ==
    IF ~dec.ok THEN Outcome(r, m, Error(dec.kind, dec.val))
    ELSE match_8bit(r, m, instruction_byte, dec.val)

\* `self.next().ok_or(..)?`, then the decoding of the byte fetched.
fetch_8bit(n, m) ==
    IF n.byte = None THEN Fail(n.registers, m, "No more memory")
    ELSE decode_8bit(n.registers, m, n.byte, InstructionTable[n.byte])

run_8bit_opcode(r, m) == fetch_8bit(next(r, m), m)

(***************************************************************************)
(* cpu.rs: the arms of Cpu::run_16bit_opcode.                              *)
(***************************************************************************)
Fall16(r, m, instr) == Outcome(r, m, Cycles(PrefixedInstruction_cycles(instr)))

\* The shape shared by the eight arms: read the operand, write the result,
\* set Z from the result, clear N and H, set C.
Shift16(r, m, instr, val, result, cf) ==
    LET w == set_r8(r, m, instr.reg, result)
    IN  IF val = None THEN Fail(r, m, "get_byte")
        ELSE Fall16(SetZNHC(w.registers, result = 0, FALSE, FALSE, cf), w.memory, instr)

RlcR8(r, m, instr) ==
    LET val == get_r8(r, m, instr.reg)
        rotated == rotate_left_u8(val)
    IN  Shift16(r, m, instr, val, rotated, is_bit_set(rotated, 0))

RrcR8(r, m, instr) ==
    LET val == get_r8(r, m, instr.reg)
    IN  Shift16(r, m, instr, val, rotate_right_u8(val), is_bit_set(val, 0))

RlR8(r, m, instr) ==
    LET val == get_r8(r, m, instr.reg)
    IN  Shift16(r, m, instr, val, set_bit_u8(rotate_left_u8(val), 0, c_flg(r)),
                is_bit_set(val, 7))

RrR8(r, m, instr) ==
    LET val == get_r8(r, m, instr.reg)
    IN  Shift16(r, m, instr, val, set_bit_u8(rotate_right_u8(val), 7, c_flg(r)),
                is_bit_set(val, 0))

SlaR8(r, m, instr) ==
    LET val == get_r8(r, m, instr.reg)
    IN  Shift16(r, m, instr, val, (val * 2) % 256, is_bit_set(val, 7))

SraR8(r, m, instr) ==
    LET val == get_r8(r, m, instr.reg)
    IN  Shift16(r, m, instr, val, set_bit_u8(val \div 2, 7, is_bit_set(val, 7)),
                is_bit_set(val, 0))

SwapR8(r, m, instr) ==
    LET val == get_r8(r, m, instr.reg)
    IN  Shift16(r, m, instr, val, BitOr((BitAnd(val, 15) * 16) % 256, val \div 16), FALSE)

SrlR8(r, m, instr) ==
    LET val == get_r8(r, m, instr.reg)
    IN  Shift16(r, m, instr, val, val \div 2, is_bit_set(val, 0))

\* The match has no arm for BitB3R8, ResB3R8 and SetB3R8; its default arm
\* (left commented out in the source) bails out with the instruction byte.
match_16bit(r, m, instruction_byte, instr) ==
    CASE instr.tag = "RlcR8" -> RlcR8(r, m, instr)
      [] instr.tag = "RrcR8" -> RrcR8(r, m, instr)
      [] instr.tag = "RlR8" -> RlR8(r, m, instr)
      [] instr.tag = "RrR8" -> RrR8(r, m, instr)
      [] instr.tag = "SlaR8" -> SlaR8(r, m, instr)
      [] instr.tag = "SraR8" -> SraR8(r, m, instr)
      [] instr.tag = "SwapR8" -> SwapR8(r, m, instr)
      [] instr.tag = "SrlR8" -> SrlR8(r, m, instr)
      [] OTHER -> Outcome(r, m, Error("unimplemented", instruction_byte))

\* `PrefixedInstruction::try_from(instruction_byte)?`, then the match.
decode_16bit(r, m, instruction_byte, dec) ==
    IF ~dec.ok THEN Outcome(r, m, Error(dec.kind, dec.val))
    ELSE match_16bit(r, m, instruction_byte, dec.val)

\* `self.next().ok_or(..)?`, then the decoding of the byte fetched.
fetch_16bit(n, m) ==
    IF n.byte = None THEN Fail(n.registers, m, "No more memory")
    ELSE decode_16bit(n.registers, m, n.byte, PrefixedInstructionTable[n.byte])

run_16bit_opcode(r, m) == fetch_16bit(next(r, m), m)

\* `if Status::Prefix == result { return self.run_16bit_opcode(); }`
after_8bit(result) ==
    IF result.status = Prefix
    THEN run_16bit_opcode(result.registers, result.memory)
    ELSE result

run_next_instruction(r, m) == after_8bit(run_8bit_opcode(r, m))

(***************************************************************************)
(* The state machine: a Cpu, and a caller that runs instructions on it     *)
(* until one fails.                                                        *)
(***************************************************************************)
\* The Cpu and the status returned are those of an instruction's outcome.
Becomes(out) ==
    /\ registers' = out.registers
    /\ memory' = out.memory
    /\ status' = out.status

RunNextInstruction ==
    /\ Len(history) < MaxSteps
    /\ status.tag \in {"Init", "Cycles"}
    /\ Becomes(run_next_instruction(registers, memory))
    /\ history' = Append(history, [registers |-> registers, memory |-> memory])
    /\ UNCHANGED <<overflow_checks, cycles>>

Next == RunNextInstruction

\* The collaborator that owns interrupt timing asks Memory for the interrupt
\* to run.
InterruptToRun ==
    /\ Len(history) < MaxSteps
    /\ memory' = interrupt_to_run(memory).memory
    /\ status' = interrupt_to_run(memory).status
    /\ history' = Append(history, [registers |-> registers, memory |-> memory])
    /\ UNCHANGED <<registers, overflow_checks, cycles>>

\* Memory::default(), and a memory with the given bytes stored from addr on.
EmptyMemory == [k \in {} |-> 0]

RECURSIVE StoreAt(_, _, _)
StoreAt(m, addr, bytes) ==
    IF bytes = <<>> THEN m
    ELSE StoreAt(set_byte(m, addr, Head(bytes)), (addr + 1) % 65536, Tail(bytes))

Registers(af, bc, de, hl, sp, pc) ==
    [af |-> af, bc |-> bc, de |-> de, hl |-> hl, sp |-> sp, pc |-> pc]

\* A Cpu set up the way the conformance harness sets one up: registers and
\* memory cells written directly, then instructions run.
Setup(r, m) ==
    /\ registers = r
    /\ memory = m
    /\ status = [tag |-> "Init", val |-> 0, kind |-> ""]
    /\ history = <<>>
    /\ overflow_checks \in BOOLEAN
    /\ cycles = 0

\* Register files the general specification starts from: A and the three
\* pairs, SP and PC, at ordinary and at boundary values.
RegisterSamples ==
    { <<\h12, \h3456, \h789A, \hC0DE, \hFFFE, \h0100>>,
      <<\hFF, \hFFFF, \h0000, \hFFFF, \h0001, \hFFFD>>,
      <<\h00, \h000F, \hFF00, \h0000, \h0000, \h0000>> }

\* Every opcode, with sampled operand bytes, every flag combination and a
\* non-zero stack.
InitAnyOpcode ==
    \E opcode \in 0..255, b1 \in {\h00, \h7F, \hFF}, b2 \in {\h00, \hFF},
       f \in 0..15, s \in RegisterSamples :
        Setup(Registers(s[1] * 256 + f * 16, s[2], s[3], s[4], s[5], s[6]),
              StoreAt(StoreAt(EmptyMemory, s[5], <<\hFF, \hA5>>),
                      s[6], <<opcode, b1, b2>>))

\* POP AF with every byte at SP.
InitPopAf ==
    \E low \in 0..255, high \in {\h00, \hFF}, f \in 0..15 :
        Setup(Registers(f * 16, 0, 0, 0, \hC000, 0),
              StoreAt(StoreAt(EmptyMemory, \hC000, <<low, high>>), 0, <<\hF1>>))

\* The prefix byte followed by every second byte.
InitPrefixed ==
    \E second \in 0..255, f \in 0..15, s \in RegisterSamples :
        Setup(Registers(s[1] * 256 + f * 16, s[2], s[3], s[4], s[5], s[6]),
              StoreAt(StoreAt(EmptyMemory, s[4], <<\h81>>),
                      s[6], <<instructions.PREFIX, second>>))

Init == InitAnyOpcode \/ InitPopAf \/ InitPrefixed

Spec == Init /\ [][Next]_vars

\* The Cpu before the last instruction, the opcode byte that instruction
\* fetched, and the operand bytes after it.
Ran == history # <<>>
pre == history[Len(history)]
Opcode == get_byte(pre.memory, pre.registers.pc)
Operand(k) == get_byte(pre.memory, (pre.registers.pc + k) % 65536)
Returned == Ran /\ status.tag = "Cycles"

\* The flags of the Cpu before the last instruction, read from F directly.
FlagBit(r, bit) == (r.af \div (2 ^ bit)) % 2 = 1

ConformanceOpcodes ==
    (\h00..\h0F) \cup (\h11..\h75) \cup (\h77..\hCA) \cup (\hCC..\hD2)
    \cup (\hD4..\hDA) \cup {\hDC} \cup (\hDE..\hE2) \cup (\hE5..\hEA)
    \cup (\hEE..\hF3) \cup (\hF5..\hFB) \cup (\hFE..\hFF)

(***************************************************************************)
(* C2.  For every unprefixed opcode the conformance suite enumerates,      *)
(* run_next_instruction with PC at that opcode returns Status::Cycles and  *)
(* never an error, whatever the registers and memory hold.                 *)
(***************************************************************************)
C2_ConformanceOpcodesReturnCycles ==
    (Ran /\ Opcode \in ConformanceOpcodes) => status.tag = "Cycles"

\* DI (0xF3), an enumerated opcode, has been run and reported the error of
\* the default arm.
C2_DiReportsError ==
    /\ Ran
    /\ Opcode = \hF3
    /\ status = Error("unimplemented", \hF3)

(***************************************************************************)
(* C3.  When the byte at PC is 0xCB, one call of run_next_instruction      *)
(* fetches, decodes and executes the following byte, for every second byte *)
(* 0x00-0xFF: it returns Status::Cycles (not Prefix, not an error) and PC  *)
(* has advanced by exactly 2 modulo 2^16.                                  *)
(***************************************************************************)
C3_PrefixedReturnsCycles ==
    (Ran /\ Opcode = \hCB) =>
        /\ status.tag = "Cycles"
        /\ registers.pc = (pre.registers.pc + 2) % 65536

\* CB 06 (RLC [HL]) has been run and reported the R8 conversion error.
C3_RlcHlReportsError ==
    /\ Ran
    /\ Opcode = \hCB
    /\ Operand(1) = \h06
    /\ status = Error("R8", 6)

\* The opcodes the SM83 leaves unassigned.
UnassignedOpcodes ==
    {\hD3, \hDB, \hDD, \hE3, \hE4, \hEB, \hEC, \hED, \hF4, \hFC, \hFD}

(***************************************************************************)
(* C4.  Decoding is a function of the opcode byte alone that yields one    *)
(* instruction variant for each assigned opcode and fails with an error    *)
(* naming the byte for each of the eleven unassigned opcodes.              *)
(***************************************************************************)
C4_DecodeAssignedOrNamedError ==
    Ran =>
        IF Opcode \in UnassignedOpcodes
        THEN Instruction_try_from(Opcode) = Err("unimplemented", Opcode)
        ELSE Instruction_try_from(Opcode).ok

\* STOP (0x10), an assigned opcode, has been fetched and did not decode.
C4_StopDoesNotDecode ==
    /\ Ran
    /\ Opcode = \h10
    /\ Instruction_try_from(Opcode) = Err("unimplemented", \h10)
    /\ status = Error("unimplemented", \h10)

(***************************************************************************)
(* C5.  Executing HALT (0x76) leaves the engine in a Halted state the      *)
(* caller observes as a status; it does not report an error.               *)
(***************************************************************************)
C5_HaltIsNotAnError == (Ran /\ Opcode = \h76) => status.tag # "Err"

\* HALT has decoded to the Halt variant, and running it reported the error of
\* the default arm.
C5_HaltReportsError ==
    /\ Ran
    /\ Opcode = \h76
    /\ Instruction_try_from(Opcode) = Ok(Plain("Halt"))
    /\ status = Error("unimplemented", \h76)

\* The conditional branches: opcode -> <<cycles taken, cycles not taken>>.
JrCondOpcodes == {\h20, \h28, \h30, \h38}
JpCondOpcodes == {\hC2, \hCA, \hD2, \hDA}
CallCondOpcodes == {\hC4, \hCC, \hD4, \hDC}
RetCondOpcodes == {\hC0, \hC8, \hD0, \hD8}
CondOpcodes == JrCondOpcodes \cup JpCondOpcodes \cup CallCondOpcodes \cup RetCondOpcodes

BranchCycles(opcode) ==
    CASE opcode \in JrCondOpcodes -> <<3, 2>>
      [] opcode \in JpCondOpcodes -> <<4, 3>>
      [] opcode \in CallCondOpcodes -> <<6, 3>>
      [] opcode \in RetCondOpcodes -> <<5, 2>>

\* Whether the condition in bits 3-4 of a branch opcode holds before it runs:
\* NZ, Z, NC, C.
ConditionHeld(opcode, r) ==
    CASE (opcode \div 8) % 4 = 0 -> ~FlagBit(r, 7)
      [] (opcode \div 8) % 4 = 1 -> FlagBit(r, 7)
      [] (opcode \div 8) % 4 = 2 -> ~FlagBit(r, 4)
      [] (opcode \div 8) % 4 = 3 -> FlagBit(r, 4)

InitLdR16Imm16 ==
    \E opcode \in {\h01, \h11, \h21, \h31}, b1 \in 0..255,
       b2 \in {\h00, \hBC, \hFF}, f \in {0, 5, 10, 15}, pc \in {\h0000, \hFFFE} :
        Setup(Registers(\h1200 + f * 16, \h3456, \h789A, \hC0DE, \hFFF0, pc),
              StoreAt(EmptyMemory, pc, <<opcode, b1, b2>>))

\* INC r8 / DEC r8 for the eight operand encodings: every 8-bit location,
\* and the byte at HL, holds the same value.
InitIncDecR8 ==
    \E operand \in 0..7, dec \in {0, 1}, value \in 0..255, f \in {0, 1, 14, 15} :
        Setup(Registers(value * 256 + f * 16, value * 257, value * 257,
                        value * 257, \hFFFE, \h0100),
              StoreAt(StoreAt(EmptyMemory, value * 257, <<value>>),
                      \h0100, <<operand * 8 + 4 + dec>>))

\* DAA on every accumulator and every flag combination.
InitDaa ==
    \E acc \in 0..255, f \in 0..15 :
        Setup(Registers(acc * 256 + f * 16, 0, 0, 0, \hFFFE, \h0100),
              StoreAt(EmptyMemory, \h0100, <<instructions.DAA>>))

\* JR and JR cc with every displacement byte, from both ends and the middle
\* of memory, and the second jump of the unit tests at 39.
InitJr ==
    \E opcode \in {\h18} \cup JrCondOpcodes, d \in 0..255, f \in {0, 1, 8, 9},
       pc \in {\h0000, \h0100, \h7FFF, \hFF80, \hFFFE, \hFFFF} :
        Setup(Registers(f * 16, \h0000, \h0000, \h0000, \hFFFE, pc),
              StoreAt(StoreAt(EmptyMemory, 39, <<opcode, 235>>), pc, <<opcode, d>>))

InitOps == InitLdR16Imm16 \/ InitIncDecR8 \/ InitDaa \/ InitJr

SpecOps == InitOps /\ [][Next]_vars

\* The pair LD r16, imm16 selects with bits 4-5 of its opcode.
PairLoaded(opcode, r) ==
    CASE opcode = \h01 -> r.bc
      [] opcode = \h11 -> r.de
      [] opcode = \h21 -> r.hl
      [] opcode = \h31 -> r.sp

\* The 8-bit location INC/DEC r8 selects with bits 3-5 of its opcode.
ByteSelected(opcode, r, m) ==
    CASE (opcode \div 8) % 8 = 0 -> r.bc \div 256
      [] (opcode \div 8) % 8 = 1 -> r.bc % 256
      [] (opcode \div 8) % 8 = 2 -> r.de \div 256
      [] (opcode \div 8) % 8 = 3 -> r.de % 256
      [] (opcode \div 8) % 8 = 4 -> r.hl \div 256
      [] (opcode \div 8) % 8 = 5 -> r.hl % 256
      [] (opcode \div 8) % 8 = 6 -> get_byte(m, r.hl)
      [] (opcode \div 8) % 8 = 7 -> r.af \div 256

(***************************************************************************)
(* C8.  LD r16, imm16 (0x01, 0x11, 0x21, 0x31) loads the selected pair     *)
(* with the two bytes after the opcode, the first being the low byte,      *)
(* advances PC by 3, changes no flag and returns 3 cycles.                 *)
(***************************************************************************)
C8_LdR16Imm16 ==
    (Ran /\ Opcode \in {\h01, \h11, \h21, \h31}) =>
        /\ status = Cycles(3)
        /\ PairLoaded(Opcode, registers) = Operand(1) + 256 * Operand(2)
        /\ registers.pc = (pre.registers.pc + 3) % 65536
        /\ registers.af = pre.registers.af

\* 01 3C BC has run and BC is 0xBC3C.
C8_LdBc ==
    /\ Returned
    /\ Opcode = \h01
    /\ Operand(1) = \h3C
    /\ Operand(2) = \hBC
    /\ pre.registers.bc # \hBC3C
    /\ registers.bc = \hBC3C

IncDecR8Opcodes == {operand * 8 + 4 + dec : operand \in 0..7, dec \in {0, 1}}

(***************************************************************************)
(* C9.  8-bit INC/DEC on any r8 operand, the byte at HL included: the      *)
(* operand becomes value+1 / value-1 modulo 256, Z = (result = 0), N = 1   *)
(* exactly for DEC, H = the low nibble was 0xF (INC) or 0x0 (DEC), and C   *)
(* keeps its value.                                                        *)
(***************************************************************************)
C9_IncDecR8 ==
    (Ran /\ Opcode \in IncDecR8Opcodes) =>
        LET dec == Opcode % 2 = 1
            value == ByteSelected(Opcode, pre.registers, pre.memory)
            result == IF dec THEN (value + 255) % 256 ELSE (value + 1) % 256
        IN  /\ status.tag = "Cycles"
            /\ ByteSelected(Opcode, registers, memory) = result
            /\ FlagBit(registers, 7) = (result = 0)
            /\ FlagBit(registers, 6) = dec
            /\ FlagBit(registers, 5) = (value % 16 = IF dec THEN 0 ELSE 15)
            /\ FlagBit(registers, 4) = FlagBit(pre.registers, 4)

\* INC [HL] (0x34) has been fetched, reported the R8 conversion error, and
\* left the byte at HL as it was.
C9_IncHlReportsError ==
    /\ Ran
    /\ Opcode = \h34
    /\ status = Error("R8", 6)
    /\ get_byte(memory, registers.hl) = get_byte(pre.memory, pre.registers.hl)

(***************************************************************************)
(* C10.  DAA, for every A and every prior N, H, C: the correction has 0x06 *)
(* if H is set or (N = 0 and the low nibble of A > 9), and 0x60 if C was   *)
(* set or (N = 0 and A > 0x99), in which case C is set and otherwise       *)
(* cleared; it is subtracted when N = 1 and added when N = 0, modulo 256;  *)
(* afterwards Z = (A = 0), H = 0 and N is unchanged.                       *)
(***************************************************************************)
C10_Daa ==
    (Ran /\ Opcode = \h27) =>
        LET acc == pre.registers.af \div 256
            nf == FlagBit(pre.registers, 6)
            low == FlagBit(pre.registers, 5) \/ (~nf /\ acc % 16 > 9)
            high == FlagBit(pre.registers, 4) \/ (~nf /\ acc > \h99)
            fix == (IF low THEN \h06 ELSE 0) + (IF high THEN \h60 ELSE 0)
            result == IF nf THEN (acc + 256 - fix) % 256 ELSE (acc + fix) % 256
        IN  /\ status = Cycles(1)
            /\ registers.af \div 256 = result
            /\ FlagBit(registers, 7) = (result = 0)
            /\ FlagBit(registers, 6) = nf
            /\ ~FlagBit(registers, 5)
            /\ FlagBit(registers, 4) = high

\* DAA has run on A = 0x9C with N = H = C = 0 and left A = 0x02 with C set.
C10_Daa9C ==
    /\ Returned
    /\ Opcode = \h27
    /\ pre.registers.af = \h9C00
    /\ registers.af = \h0210

(***************************************************************************)
(* Two-instruction programs: one that pushes, then one that pops.          *)
(***************************************************************************)
PushOpcodes == {\hC5, \hD5, \hE5, \hF5}
RstOpcodes == {\hC7, \hCF, \hD7, \hDF, \hE7, \hEF, \hF7, \hFF}
PopOpcodes == {\hC1, \hD1, \hE1, \hF1}

\* Where the instruction at r.pc leaves PC, for the pushing instructions.
Continuation(opcode, r, target) ==
    IF opcode \in PushOpcodes THEN (r.pc + 1) % 65536
    ELSE IF opcode \in RstOpcodes THEN opcode - \hC7
    ELSE IF opcode = \hCD THEN target
    ELSE IF ConditionHeld(opcode, r) THEN target
    ELSE (r.pc + 3) % 65536

InitPushThenPop ==
    \E first \in PushOpcodes \cup RstOpcodes \cup CallCondOpcodes \cup {\hCD},
       second \in PopOpcodes \cup RetCondOpcodes \cup {\hC9, \hD9},
       sp \in {\h0000, \h0001, \h0002, \hC000, \hFFFE, \hFFFF},
       v \in {\h0000, \h1234, \h00FF, \hFF00, \hFFFF},
       f \in {0, 1, 8, 9}, pc \in {\h0100, \hABCB} :
        LET r == Registers((v \div 256) * 256 + f * 16, v, v, v, sp, pc)
        IN  Setup(r, StoreAt(StoreAt(EmptyMemory, pc, <<first, \h00, \h02>>),
                             Continuation(first, r, \h0200), <<second>>))

SpecStack == InitPushThenPop /\ [][Next]_vars

\* The k-th instruction run, and the Cpu it ran on.
OpcodeAt(k) == get_byte(history[k].memory, history[k].registers.pc)

\* The k-th instruction pushes: PUSH, CALL, RST, or CALL cc with cc met.
Pushing(k) ==
    \/ OpcodeAt(k) \in PushOpcodes \cup RstOpcodes \cup {\hCD}
    \/ /\ OpcodeAt(k) \in CallCondOpcodes
       /\ ConditionHeld(OpcodeAt(k), history[k].registers)

\* The value it pushes: the pair PUSH names, or the address after the
\* CALL or RST.
PushedValue(k) ==
    LET r == history[k].registers
    IN  CASE OpcodeAt(k) = \hC5 -> r.bc
          [] OpcodeAt(k) = \hD5 -> r.de
          [] OpcodeAt(k) = \hE5 -> r.hl
          [] OpcodeAt(k) = \hF5 -> r.af
          [] OpcodeAt(k) \in RstOpcodes -> (r.pc + 1) % 65536
          [] OTHER -> (r.pc + 3) % 65536

\* The k-th instruction pops: POP, RET, RETI, or RET cc with cc met.
Popping(k) ==
    \/ OpcodeAt(k) \in PopOpcodes \cup {\hC9, \hD9}
    \/ /\ OpcodeAt(k) \in RetCondOpcodes
       /\ ConditionHeld(OpcodeAt(k), history[k].registers)

\* Where the value popped by the k-th instruction is found in r; AF holds it
\* without the low nibble of F.
PoppedValue(k, r) ==
    CASE OpcodeAt(k) = \hC1 -> r.bc
      [] OpcodeAt(k) = \hD1 -> r.de
      [] OpcodeAt(k) = \hE1 -> r.hl
      [] OpcodeAt(k) = \hF1 -> r.af
      [] OTHER -> r.pc

Expected(k, v) == IF OpcodeAt(k) = \hF1 THEN v - (v % 16) ELSE v

(***************************************************************************)
(* C7.  Stack round trip: for every 16-bit value v and every SP, pushing v *)
(* (PUSH, or CALL or RST pushing PC) and then popping (POP or RET) yields  *)
(* v again and restores SP to its value before the push.                   *)
(***************************************************************************)
C7_PushPopRoundTrip ==
    /\ (Len(history) = 1 /\ Pushing(1)) => status.tag = "Cycles"
    /\ (Len(history) = 2 /\ Pushing(1) /\ Popping(2)) =>
           /\ status.tag = "Cycles"
           /\ PoppedValue(2, registers) = Expected(2, PushedValue(1))
           /\ registers.sp = history[1].registers.sp

\* CALL has run with SP = 0x0001 in a build that checks overflow: SP is
\* 0xFFFF, the low byte of the return address is stored, and the call
\* panicked on the address of the high byte.
C7_CallPanicsAtSp1 ==
    /\ Len(history) = 1
    /\ OpcodeAt(1) = \hCD
    /\ history[1].registers.sp = \h0001
    /\ overflow_checks
    /\ status = Panicked
    /\ registers.sp = \hFFFF
    /\ get_byte(memory, \hFFFF) = PushedValue(1) % 256

\* Where the build wraps, the round trip goes through at every SP.
RoundTripWhereOverflowWraps == ~overflow_checks => C7_PushPopRoundTrip

\* PUSH then POP round trip: PUSH BC with SP = 0x0001, then POP DE.
PushPopAcrossZero ==
    /\ Len(history) = 2
    /\ OpcodeAt(1) = \hC5
    /\ OpcodeAt(2) = \hD1
    /\ history[1].registers.sp = \h0001
    /\ history[1].registers.bc = \h1234
    /\ registers.de = \h1234
    /\ registers.sp = \h0001

(***************************************************************************)
(* Families for the 16-bit pairs: INC/DEC r16, the r16mem loads, the       *)
(* SP-relative additions and RST.                                          *)
(***************************************************************************)
PairValues == {\h0000, \h0001, \h00FF, \h0100, \h7FFF, \h8000, \hFFFE, \hFFFF}

IncR16Opcodes == {\h03, \h13, \h23, \h33}
DecR16Opcodes == {\h0B, \h1B, \h2B, \h3B}

\* INC r16 / DEC r16 with every pair at the same value.
InitIncDecR16 ==
    \E opcode \in IncR16Opcodes \cup DecR16Opcodes, value \in PairValues,
       f \in 0..15 :
        Setup(Registers(\h1200 + f * 16, value, value, value, value, \h0100),
              StoreAt(EmptyMemory, \h0100, <<opcode>>))

\* The pair an opcode selects with bits 4-5: BC, DE, HL, SP.
PairSelected(opcode, r) ==
    CASE (opcode \div 16) % 4 = 0 -> r.bc
      [] (opcode \div 16) % 4 = 1 -> r.de
      [] (opcode \div 16) % 4 = 2 -> r.hl
      [] (opcode \div 16) % 4 = 3 -> r.sp

(***************************************************************************)
(* C11.  16-bit INC/DEC on BC, DE, HL or SP changes the pair by +1 / -1    *)
(* modulo 2^16 (0xFFFF + 1 = 0x0000, 0x0000 - 1 = 0xFFFF), never reports   *)
(* an error, and leaves every flag unchanged.                              *)
(***************************************************************************)
C11_IncDecR16 ==
    (Ran /\ Opcode \in IncR16Opcodes \cup DecR16Opcodes) =>
        /\ status.tag = "Cycles"
        /\ PairSelected(Opcode, registers) =
               (PairSelected(Opcode, pre.registers)
                + (IF Opcode \in IncR16Opcodes THEN 1 ELSE 65535)) % 65536
        /\ registers.af = pre.registers.af

\* INC SP has run at SP = 0xFFFF and left SP = 0x0000.
C11_IncSpWraps ==
    /\ Returned
    /\ Opcode = \h33
    /\ pre.registers.sp = \hFFFF
    /\ registers.sp = \h0000

\* ADD SP, e8 and LD HL, SP + e8 for every immediate byte, with SP at and
\* around the carry boundaries of its low nibble, low byte and 16 bits.
InitSpOffset ==
    \E opcode \in {\hE8, \hF8}, e8 \in 0..255, f \in {0, 15},
       stack \in PairValues \cup {\h000F, \h0010, \h00F0, \h0FFF, \hFF80, \hC0DE} :
        Setup(Registers(\h1200 + f * 16, \h0000, \h0000, \h3456, stack, \h0100),
              StoreAt(EmptyMemory, \h0100, <<opcode, e8>>))

\* RST to each of the eight vectors, from the start, the middle and the end of
\* memory, with SP at and around both ends.
InitRst ==
    \E opcode \in RstOpcodes, stack \in PairValues \cup {\h0002, \hC000},
       pc \in {\h0000, \h0100, \hABCD, \hFFFF} :
        Setup(Registers(\h12F0, \h0000, \h0000, \h0000, stack, pc),
              StoreAt(EmptyMemory, pc, <<opcode>>))

R16MemStoreOpcodes == {\h02, \h12, \h22, \h32}
R16MemLoadOpcodes == {\h0A, \h1A, \h2A, \h3A}

\* LD [r16mem], A and LD A, [r16mem] with BC = DE = HL, a byte stored at
\* that address and another in A.
InitR16Mem ==
    \E opcode \in R16MemStoreOpcodes \cup R16MemLoadOpcodes, value \in PairValues,
       f \in {0, 15} :
        Setup(Registers(\hA500 + f * 16, value, value, value, \hFFFE, \h0100),
              StoreAt(StoreAt(EmptyMemory, value, <<\h5A>>), \h0100, <<opcode>>))

\* The selector in bits 4-5 of an r16mem opcode: BC, DE, HL+, HL-; the
\* address it yields, and what it adds to HL.
AddressSelected(opcode, r) ==
    CASE (opcode \div 16) % 4 = 0 -> r.bc
      [] (opcode \div 16) % 4 = 1 -> r.de
      [] OTHER -> r.hl

AutoIndex(opcode) ==
    CASE (opcode \div 16) % 4 = 2 -> 1
      [] (opcode \div 16) % 4 = 3 -> 65535
      [] OTHER -> 0

(***************************************************************************)
(* C12.  HL+/HL- auto-index: for every HL, 0xFFFF and 0x0000 included,     *)
(* get_r16mem(HLI) returns the old HL and leaves HL + 1 modulo 2^16,       *)
(* get_r16mem(HLD) returns the old HL and leaves HL - 1 modulo 2^16, with  *)
(* no overflow error; the BC and DE selectors return the pair and change   *)
(* nothing.  The value returned is the address the load or store uses.     *)
(***************************************************************************)
C12_AutoIndex ==
    (Ran /\ Opcode \in R16MemStoreOpcodes \cup R16MemLoadOpcodes) =>
        LET addr == AddressSelected(Opcode, pre.registers)
        IN  /\ status.tag = "Cycles"
            /\ IF Opcode \in R16MemStoreOpcodes
               THEN get_byte(memory, addr) = pre.registers.af \div 256
               ELSE registers.af \div 256 = get_byte(pre.memory, addr)
            /\ registers.hl = (pre.registers.hl + AutoIndex(Opcode)) % 65536
            /\ registers.bc = pre.registers.bc
            /\ registers.de = pre.registers.de

\* LD A, [HL+] has run with HL = 0xFFFF in a build that checks overflow, and
\* panicked on `self.hl += 1` before reading the byte.
C12_HliPanicsAtFFFF ==
    /\ Ran
    /\ Opcode = \h2A
    /\ pre.registers.hl = \hFFFF
    /\ overflow_checks
    /\ status = Panicked
    /\ registers.af = pre.registers.af

\* Where the build wraps, the auto-index is as stated for every HL.
AutoIndexWhereOverflowWraps == ~overflow_checks => C12_AutoIndex

InitPairs == InitIncDecR16 \/ InitR16Mem \/ InitSpOffset \/ InitRst

SpecPairs == InitPairs /\ [][Next]_vars

Addresses ==
    {\h0000, \h0001, \h00FF, \h0100, \h0101, \h0102, \h0103, \h7FFF, \h8000,
     \hC7D1, \hE7D1, \hFEFF, \hFF00, \hFFFE, \hFFFF}

\* LD [imm16], A and LD A, [imm16] on a sampled address, over a memory that
\* is empty or holds bytes at the address, its neighbours and elsewhere.
InitMemoryAccess ==
    \E opcode \in {\hEA, \hFA}, addr \in Addresses, value \in {\h00, \h1F, \hFF},
       filled \in BOOLEAN :
        LET data == IF filled
                    THEN StoreAt(StoreAt(EmptyMemory, \hC7D0, <<\h44, \h55>>),
                                 (addr + 65535) % 65536, <<\h11, \h22, \h33>>)
                    ELSE EmptyMemory
        IN  Setup(Registers(value * 256, \h0000, \h0000, \h0000, \hFFFE, \h0200),
                  StoreAt(data, \h0200, <<opcode, addr % 256, addr \div 256>>))

\* LD [imm16], SP on the same addresses, the last one included.
InitLdImm16Sp ==
    \E addr \in Addresses, stack \in {\h0000, \h00FF, \hEB89, \hFFFF} :
        Setup(Registers(\h01B0, \h0000, \h0000, \h0000, stack, \h0200),
              StoreAt(StoreAt(EmptyMemory, (addr + 65535) % 65536, <<\h11, \h22, \h33>>),
                      \h0200, <<\h08, addr % 256, addr \div 256>>))

InitMemory == InitMemoryAccess \/ InitLdImm16Sp

SpecMemory == InitMemory /\ [][Next]_vars

Target == Operand(1) + 256 * Operand(2)

(***************************************************************************)
(* C13.  Memory is total over the 16-bit address space: get_byte succeeds  *)
(* for every address; after set_byte(a, v), get_byte(a) is v and every     *)
(* other address holds what it held before.  set_byte is observed through  *)
(* LD [imm16], A and get_byte through LD A, [imm16].                       *)
(***************************************************************************)
C13_MemoryTotal ==
    /\ (Ran /\ Opcode = \hEA) =>
           /\ status.tag = "Cycles"
           /\ \A b \in 0..65535 :
                  /\ get_byte(memory, b) \in 0..255
                  /\ get_byte(memory, b) =
                         IF b = Target THEN pre.registers.af \div 256
                         ELSE get_byte(pre.memory, b)
    /\ (Ran /\ Opcode = \hFA) =>
           /\ status.tag = "Cycles"
           /\ registers.af \div 256 = get_byte(pre.memory, Target)
           /\ memory = pre.memory

\* A store to the last address, over a byte that was there, has been read
\* back.
C13_StoreAtFFFF ==
    /\ Returned
    /\ Opcode = \hEA
    /\ Target = \hFFFF
    /\ get_byte(pre.memory, \hFFFF) = \h22
    /\ get_byte(memory, \hFFFF) = \h1F
    /\ get_byte(memory, \h0000) = \h33

ByteSamples ==
    {\h00, \h01, \h02, \h04, \h08, \h10, \h20, \h40, \h80,
     \h0F, \hF0, \h55, \hAA, \h7F, \hFE, \hFF}

HighLoads == {\h06, \h16, \h26}
LowLoads == {\h0E, \h1E, \h2E}

\* LD B, h ; LD C, l (and the same on DE and HL) over a pair that holds
\* something else: set_high followed by set_low on one pair.
InitHighThenLow ==
    \E opcode \in HighLoads, h \in 0..255, l \in ByteSamples,
       initial \in {\h0000, \hFFFF, \hB18E, \h4E71} :
        Setup(Registers(\h0000, initial, initial, initial, \hFFFE, \h0100),
              StoreAt(EmptyMemory, \h0100, <<opcode, h, opcode + 8, l>>))

SpecPacking == InitHighThenLow /\ [][Next]_vars

\* The pair a LD r8, imm8 opcode writes into: BC, DE or HL.
PairWritten(opcode, r) ==
    CASE opcode \div 16 = 0 -> r.bc
      [] opcode \div 16 = 1 -> r.de
      [] OTHER -> r.hl

(***************************************************************************)
(* C14.  Register-pair packing: set_high(high byte of v) followed by       *)
(* set_low(low byte of v) leaves the pair equal to v, for every v and      *)
(* every initial pair; set_high leaves the low byte unchanged and set_low  *)
(* leaves the high byte unchanged.                                         *)
(***************************************************************************)
C14_HighThenLow ==
    /\ (Ran /\ Opcode \in HighLoads) =>
           PairWritten(Opcode, registers) =
               Operand(1) * 256 + (PairWritten(Opcode, pre.registers) % 256)
    /\ (Ran /\ Opcode \in LowLoads) =>
           PairWritten(Opcode, registers) =
               (PairWritten(Opcode, pre.registers) \div 256) * 256 + Operand(1)
    /\ (/\ Len(history) >= 2
        /\ OpcodeAt(Len(history) - 1) \in HighLoads
        /\ Opcode = OpcodeAt(Len(history) - 1) + 8) =>
           PairWritten(Opcode, registers) =
               get_byte(history[Len(history) - 1].memory,
                        history[Len(history) - 1].registers.pc + 1) * 256
               + Operand(1)

\* LD D, 0x55 ; LD E, 0xAA over DE = 0xFFFF has left DE = 0x55AA.
C14_De55AA ==
    /\ Len(history) = 2
    /\ OpcodeAt(1) = \h16
    /\ Opcode = \h1E
    /\ history[1].registers.de = \hFFFF
    /\ registers.de = \h55AA

AccSamples ==
    ByteSamples \cup {\h0E, \h11, \h3A, \h70, \h81, \h99, \hC6, \hEF}

AluRegisterOpcodes == \h80..\hBF
AluImmediateOpcodes == {\hC6 + 8 * k : k \in 0..7}

\* ADD/ADC/SUB/SBC/AND/XOR/OR/CP A with every operand form: the operand
\* value is in B, C, D, E, H, L, at [HL] and after the opcode.
InitAlu ==
    \E opcode \in AluRegisterOpcodes \cup AluImmediateOpcodes,
       acc \in AccSamples, operand \in AccSamples, f \in {0, 1, 14, 15} :
        Setup(Registers(acc * 256 + f * 16, operand * 257, operand * 257,
                        operand * 257, \hFFFE, \h0100),
              StoreAt(StoreAt(EmptyMemory, operand * 257, <<operand>>),
                      \h0100, <<opcode, operand>>))

SpecAlu == InitAlu /\ [][Next]_vars

\* The operation in bits 3-5 of an ALU opcode: 0 ADD, 1 ADC, 2 SUB, 3 SBC,
\* 4 AND, 5 XOR, 6 OR, 7 CP; and whether its operand is the byte at HL.
AluOp == (Opcode \div 8) % 8
AluAtHl == Opcode \in AluRegisterOpcodes /\ Opcode % 8 = 6

\* The operand of the ALU instruction last run, read from the Cpu it ran on.
AluOperand ==
    IF Opcode \in AluImmediateOpcodes THEN Operand(1)
    ELSE ByteSelected((Opcode % 8) * 8, pre.registers, pre.memory)

ArithmeticAsStated ==
    LET acc == pre.registers.af \div 256
        v == AluOperand
        cin == IF AluOp \in {1, 3} /\ FlagBit(pre.registers, 4) THEN 1 ELSE 0
        sub == AluOp \in {2, 3}
        result == IF sub THEN (acc + 512 - v - cin) % 256 ELSE (acc + v + cin) % 256
    IN  /\ status.tag = "Cycles"
        /\ registers.af \div 256 = result
        /\ FlagBit(registers, 7) = (result = 0)
        /\ FlagBit(registers, 6) = sub
        /\ FlagBit(registers, 5) =
               IF sub THEN (acc % 16) < (v % 16) + cin
               ELSE (acc % 16) + (v % 16) + cin > 15
        /\ FlagBit(registers, 4) =
               IF sub THEN acc < v + cin ELSE acc + v + cin > 255

(***************************************************************************)
(* C15.  8-bit ADD/ADC/SUB/SBC with a register, the byte at HL or an       *)
(* immediate as operand: A becomes A +/- operand +/- carry-in modulo 256   *)
(* (carry-in = old C for ADC/SBC, 0 for ADD/SUB); H = carry out of bit 3   *)
(* (borrow from bit 4) including the carry-in; C = carry or borrow out of  *)
(* bit 7 including the carry-in; N = 0 for adds and 1 for subtractions;    *)
(* Z = (result = 0).                                                       *)
(***************************************************************************)
C15_Arithmetic ==
    (Ran /\ Opcode \in AluRegisterOpcodes \cup AluImmediateOpcodes /\ AluOp \in 0..3)
        => ArithmeticAsStated

\* ADD A, [HL] (0x86) has been fetched, reported the R8 conversion error and
\* left A and the flags as they were.
C15_AddHlReportsError ==
    /\ Ran
    /\ Opcode = \h86
    /\ status = Error("R8", 6)
    /\ registers.af = pre.registers.af

\* With a register or an immediate as operand the arithmetic is as stated.
ArithmeticOnRegistersAndImmediates ==
    (Ran /\ Opcode \in AluRegisterOpcodes \cup AluImmediateOpcodes /\ AluOp \in 0..3
         /\ ~AluAtHl)
        => ArithmeticAsStated

\* Bit i of the AND (op 4), XOR (op 5) or OR (op 6) of two bytes.
LogicBit(op, v, w, i) ==
    LET x == (v \div (2 ^ i)) % 2
        y == (w \div (2 ^ i)) % 2
    IN  CASE op = 4 -> x * y
          [] op = 5 -> (x + y) % 2
          [] OTHER -> IF x + y > 0 THEN 1 ELSE 0

LogicAsStated ==
    LET acc == pre.registers.af \div 256
        v == AluOperand
        result == LogicBit(AluOp, acc, v, 0) + 2 * LogicBit(AluOp, acc, v, 1)
                  + 4 * LogicBit(AluOp, acc, v, 2) + 8 * LogicBit(AluOp, acc, v, 3)
                  + 16 * LogicBit(AluOp, acc, v, 4) + 32 * LogicBit(AluOp, acc, v, 5)
                  + 64 * LogicBit(AluOp, acc, v, 6) + 128 * LogicBit(AluOp, acc, v, 7)
    IN  /\ status.tag = "Cycles"
        /\ registers.af \div 256 = result
        /\ FlagBit(registers, 7) = (result = 0)
        /\ ~FlagBit(registers, 6)
        /\ FlagBit(registers, 5) = (AluOp = 4)
        /\ ~FlagBit(registers, 4)

(***************************************************************************)
(* C16.  AND/OR/XOR with a register, the byte at HL or an immediate: A     *)
(* becomes the bitwise result, Z = (result = 0), N = 0, C = 0, and H = 1   *)
(* for AND, 0 for OR and XOR.                                              *)
(***************************************************************************)
C16_Logic ==
    (Ran /\ Opcode \in AluRegisterOpcodes \cup AluImmediateOpcodes /\ AluOp \in 4..6)
        => LogicAsStated

\* XOR A, [HL] (0xAE) has been fetched with every flag set, reported the R8
\* conversion error and left A and the flags as they were.
C16_XorHlReportsError ==
    /\ Ran
    /\ Opcode = \hAE
    /\ status = Error("R8", 6)
    /\ pre.registers.af % 256 = \hF0
    /\ registers.af = pre.registers.af

\* With a register or an immediate as operand the logic is as stated.
LogicOnRegistersAndImmediates ==
    (Ran /\ Opcode \in AluRegisterOpcodes \cup AluImmediateOpcodes /\ AluOp \in 4..6
         /\ ~AluAtHl)
        => LogicAsStated

\* What SUB A with the operand of the CP last run does to the Cpu that CP
\* ran on: the opcode 0x28 below has the same operand field.
SubInstead ==
    run_next_instruction(pre.registers,
                         set_byte(pre.memory, pre.registers.pc, Opcode - \h28))

\* The Cpu after CP against the outcome sub of the subtraction.
CompareWith(sub) ==
    /\ status.tag = "Cycles"
    /\ sub.status.tag = "Cycles"
    /\ registers.af % 256 = sub.registers.af % 256
    /\ registers = [sub.registers EXCEPT !.af = registers.af]
    /\ registers.af \div 256 = pre.registers.af \div 256
    /\ memory = pre.memory

CompareAsStated == CompareWith(SubInstead)

(***************************************************************************)
(* C17.  CP with a register, the byte at HL or an immediate sets the four  *)
(* flags exactly as SUB with the same operands would, and leaves A, every  *)
(* other register and every memory byte unchanged.                         *)
(***************************************************************************)
C17_Compare ==
    (Ran /\ Opcode \in AluRegisterOpcodes \cup AluImmediateOpcodes /\ AluOp = 7)
        => CompareAsStated

\* CP A, [HL] (0xBE) has been fetched with A below the byte at HL and no
\* flag set, reported the R8 conversion error and set no flag.
C17_CpHlReportsError ==
    /\ Ran
    /\ Opcode = \hBE
    /\ pre.registers.af \div 256 < get_byte(pre.memory, pre.registers.hl)
    /\ pre.registers.af % 256 = 0
    /\ status = Error("R8", 6)
    /\ registers.af = pre.registers.af

\* With a register or an immediate as operand CP is SUB without the store.
CompareOnRegistersAndImmediates ==
    (Ran /\ Opcode \in AluRegisterOpcodes \cup AluImmediateOpcodes /\ AluOp = 7
         /\ ~AluAtHl)
        => CompareAsStated

(***************************************************************************)
(* C18.  ADD SP, e8 and LD HL, SP + e8: the destination becomes SP plus    *)
(* the sign-extended immediate modulo 2^16; Z = 0 and N = 0; H is the      *)
(* carry out of bit 3 and C the carry out of bit 7 of the unsigned         *)
(* addition of the low byte of the old SP and the immediate byte;          *)
(* LD HL, SP + e8 leaves SP unchanged.                                     *)
(***************************************************************************)
C18_SpOffset ==
    (Ran /\ Opcode \in {\hE8, \hF8}) =>
        LET e8 == Operand(1)
            stack == pre.registers.sp
            sum == (stack + 65536 + (IF e8 >= 128 THEN e8 - 256 ELSE e8)) % 65536
        IN  /\ status.tag = "Cycles"
            /\ IF Opcode = \hE8 THEN registers.sp = sum
               ELSE registers.hl = sum /\ registers.sp = stack
            /\ ~FlagBit(registers, 7)
            /\ ~FlagBit(registers, 6)
            /\ FlagBit(registers, 5) = ((stack % 16) + (e8 % 16) > 15)
            /\ FlagBit(registers, 4) = ((stack % 256) + e8 > 255)

\* LD HL, SP - 1 with SP = 0x0000: HL = 0xFFFF, no carry from the low byte,
\* SP still 0.
C18_LdHlSpMinusOne ==
    /\ Returned
    /\ Opcode = \hF8
    /\ Operand(1) = \hFF
    /\ pre.registers.sp = \h0000
    /\ pre.registers.af % 256 = \hF0
    /\ registers.hl = \hFFFF
    /\ registers.sp = \h0000
    /\ registers.af % 256 = \h00

AccumulatorRotates == {\h07, \h0F, \h17, \h1F}
PrefixedRotates == \h00..\h1F

\* RLCA/RRCA/RLA/RRA on every accumulator, and CB-prefixed RLC/RRC/RL/RR on
\* every operand with every value in it.
InitRotate ==
    \/ \E opcode \in AccumulatorRotates, acc \in 0..255, f \in {0, 1, 14, 15} :
           Setup(Registers(acc * 256 + f * 16, \h0000, \h0000, \h0000, \hFFFE, \h0100),
                 StoreAt(EmptyMemory, \h0100, <<opcode>>))
    \/ \E second \in PrefixedRotates, value \in 0..255, f \in {0, 1, 14, 15} :
           Setup(Registers(value * 256 + f * 16, value * 257, value * 257,
                           value * 257, \hFFFE, \h0100),
                 StoreAt(StoreAt(EmptyMemory, value * 257, <<value>>),
                         \h0100, <<\hCB, second>>))

SpecRotate == InitRotate /\ [][Next]_vars

\* The last instruction is one of the eight rotates; which one (0 RLC,
\* 1 RRC, 2 RL, 3 RR), and the operand field of a prefixed one.
RotateRan ==
    /\ Ran
    /\ \/ Opcode \in AccumulatorRotates
       \/ Opcode = \hCB /\ Operand(1) \in PrefixedRotates
RotateKind == IF Opcode = \hCB THEN Operand(1) \div 8 ELSE Opcode \div 8
RotateField == IF Opcode = \hCB THEN Operand(1) % 8 ELSE 7

RotateAsStated ==
    LET v == ByteSelected(RotateField * 8, pre.registers, pre.memory)
        cin == IF FlagBit(pre.registers, 4) THEN 1 ELSE 0
        result == CASE RotateKind = 0 -> ((v * 2) % 256) + (v \div 128)
                    [] RotateKind = 1 -> (v \div 2) + 128 * (v % 2)
                    [] RotateKind = 2 -> ((v * 2) % 256) + cin
                    [] OTHER -> (v \div 2) + 128 * cin
        out == IF RotateKind \in {0, 2} THEN v \div 128 ELSE v % 2
    IN  /\ status.tag = "Cycles"
        /\ ByteSelected(RotateField * 8, registers, memory) = result
        /\ FlagBit(registers, 4) = (out = 1)
        /\ ~FlagBit(registers, 5)
        /\ ~FlagBit(registers, 6)
        /\ FlagBit(registers, 7) = (Opcode = \hCB /\ result = 0)

(***************************************************************************)
(* C19.  RLCA/RRCA rotate A by one bit and put the bit rotated out into C; *)
(* RLA/RRA rotate A through carry (the old C enters at bit 0 / bit 7, the  *)
(* bit shifted out becomes C); all four clear Z, N and H.  The CB-prefixed *)
(* RLC/RRC/RL/RR on any r8 operand compute the same result and C, clear N  *)
(* and H, and set Z = (result = 0).                                        *)
(***************************************************************************)
C19_Rotates == RotateRan => RotateAsStated

\* RR [HL] (0xCB 0x1E) has been fetched with C set, reported the R8
\* conversion error and left the byte at HL and the flags as they were.
C19_RrHlReportsError ==
    /\ Ran
    /\ Opcode = \hCB
    /\ Operand(1) = \h1E
    /\ FlagBit(pre.registers, 4)
    /\ status = Error("R8", 6)
    /\ get_byte(memory, registers.hl) = get_byte(pre.memory, pre.registers.hl)
    /\ registers.af = pre.registers.af

\* On A and on the seven registers the rotates are as stated.
RotatesOnRegisters == (RotateRan /\ RotateField # 6) => RotateAsStated

RstAsStated ==
    LET return == (pre.registers.pc + 1) % 65536
    IN  /\ status.tag = "Cycles"
        /\ registers.sp = (pre.registers.sp + 65534) % 65536
        /\ get_byte(memory, registers.sp) = return % 256
        /\ get_byte(memory, (registers.sp + 1) % 65536) = return \div 256
        /\ registers.pc = Opcode - \hC7

(***************************************************************************)
(* C20.  RST tgt3 (opcodes 0xC7 + 8 * t, t in 0..7) pushes the address of  *)
(* the next instruction (PC after the opcode fetch) on the stack,          *)
(* decrementing SP by 2, and sets PC to 8 * t.                             *)
(***************************************************************************)
C20_Rst == (Ran /\ Opcode \in RstOpcodes) => RstAsStated

\* RST 0x38 at 0xABCD with SP = 0x0001, in a build that checks overflow: the
\* low byte of the return address is at 0xFFFF, then set_u16 panicked on
\* `addr + 1`, and PC is not the vector.
C20_RstPanicsAtSp1 ==
    /\ Ran
    /\ Opcode = \hFF
    /\ pre.registers.pc = \hABCD
    /\ pre.registers.sp = \h0001
    /\ overflow_checks
    /\ status = Panicked
    /\ registers.sp = \hFFFF
    /\ get_byte(memory, \hFFFF) = \hCE
    /\ registers.pc = \hABCE

\* From every other SP, and from SP = 0x0001 where the build wraps, RST is
\* as stated.
RstAwayFromSp1 ==
    (Ran /\ Opcode \in RstOpcodes /\ ~(overflow_checks /\ pre.registers.sp = \h0001))
        => RstAsStated

\* Every IE and IF byte, in a memory that holds other bytes next to them.
InitInterrupts ==
    \E ienable \in 0..255, iflag \in 0..255 :
        Setup(Registers(\h01B0, \h0013, \h00D8, \h014D, \hFFFE, \h0100),
              StoreAt(StoreAt(StoreAt(EmptyMemory, \hFF0E, <<\hA1, iflag, \hA2>>),
                              \hFFFE, <<\hA3, ienable>>), \h0000, <<\hA4>>))

SpecInterrupts == InitInterrupts /\ [][InterruptToRun]_vars

\* The pending and enabled interrupts before the last query, and the index
\* of the lowest bit set in a non-zero byte.
Pending ==
    LET ienable == get_byte(pre.memory, INTERRUPT_ENABLE)
        iflag == get_byte(pre.memory, INTERRUPT_FLAG)
    IN  {i \in 0..7 : (ienable \div (2 ^ i)) % 2 = 1 /\ (iflag \div (2 ^ i)) % 2 = 1}

LowestPending == CHOOSE i \in Pending : \A j \in Pending : i <= j

InterruptAsStated ==
    IF Pending = {}
    THEN status.tag = "None" /\ memory = pre.memory
    ELSE /\ status.tag = "Some"
         /\ status.val = LowestPending
         /\ memory = set_byte(pre.memory, INTERRUPT_FLAG,
                              get_byte(pre.memory, INTERRUPT_FLAG) - 2 ^ LowestPending)

(***************************************************************************)
(* C21.  interrupt_to_run, for every value of the IE byte (0xFFFF) and the *)
(* IF byte (0xFF0F): returns None and changes nothing when IE & IF is 0;   *)
(* otherwise returns the interrupt whose bit index is the lowest set bit   *)
(* of IE & IF and clears exactly that bit of IF, leaving IE, the other IF  *)
(* bits and all other memory unchanged.                                    *)
(***************************************************************************)
C21_InterruptToRun == Ran => InterruptAsStated

\* IE = 0xFF and IF = 0xE0: the lowest pending bit is 5, which names no
\* InterruptType; the query returned the conversion error and IF is as it was.
C21_Bit5IsAnError ==
    /\ Ran
    /\ get_byte(pre.memory, INTERRUPT_ENABLE) = \hFF
    /\ get_byte(pre.memory, INTERRUPT_FLAG) = \hE0
    /\ status = Error("InterruptType", 32)
    /\ memory = pre.memory

\* When nothing is pending, or the lowest pending bit is one of the five
\* interrupts, the query is as stated.
InterruptAmongTheFive ==
    (Ran /\ (Pending = {} \/ LowestPending <= 4)) => InterruptAsStated

(***************************************************************************)
(* C22.  Bit-field decoder: for every byte b, x = b >> 6,                  *)
(* y = (b & 0x3F) >> 3, z = b & 0x07, p = (b >> 4) & 0x03 and q = bit 3 of *)
(* b; hence p = y >> 1, q = (y is odd) and b = 64 * x + 8 * y + z.  The    *)
(* byte is the one run_next_instruction has fetched and decoded.           *)
(***************************************************************************)
C22_BitFields ==
    Ran =>
        /\ bi_x(Opcode) = Opcode \div 64
        /\ bi_y(Opcode) = (Opcode % 64) \div 8
        /\ bi_z(Opcode) = Opcode % 8
        /\ bi_p(Opcode) = (Opcode \div 16) % 4
        /\ bi_q(Opcode) = ((Opcode \div 8) % 2 = 1)
        /\ bi_p(Opcode) = bi_y(Opcode) \div 2
        /\ bi_q(Opcode) = (bi_y(Opcode) % 2 = 1)
        /\ Opcode = 64 * bi_x(Opcode) + 8 * bi_y(Opcode) + bi_z(Opcode)

\* 0x4A = 01_001_010 has been decoded as LD C, D (y = 1 names C, z = 2 names
\* D) and has copied D into C.
C22_LdCD ==
    /\ Returned
    /\ Opcode = \h4A
    /\ bi_x(Opcode) = 1 /\ bi_y(Opcode) = 1 /\ bi_z(Opcode) = 2
    /\ pre.registers.bc % 256 # pre.registers.de \div 256
    /\ registers.bc % 256 = pre.registers.de \div 256

\* The conversion try_from maps exactly the encodings 0..last to distinct
\* selectors, and every other byte to an error.
Bijective(try_from(_), last) ==
    /\ \A v \in 0..last : try_from(v).ok
    /\ \A v, w \in 0..last : v # w => try_from(v).val # try_from(w).val
    /\ \A v \in (last + 1)..255 : ~try_from(v).ok

\* The last run did not end in a conversion error for a selector encoding
\* that is in range.
NoInRangeSelectorError ==
    ~(/\ status.tag = "Err"
      /\ \/ status.kind = "R8" /\ status.val \in 0..7
         \/ status.kind \in {"R16", "R16Mem", "R16Stk", "Cond"} /\ status.val \in 0..3)

(***************************************************************************)
(* C23.  Operand-selector encodings are bijective: each encoding 0-7       *)
(* converts to a distinct R8 selector (6 being the memory-at-HL            *)
(* pseudo-register) and each encoding 0-3 to a distinct R16, R16Mem,       *)
(* R16Stk and Cond selector; any encoding outside the range is a           *)
(* conversion error, never a silently defaulted selector.                  *)
(***************************************************************************)
C23_Selectors ==
    Ran =>
        /\ Bijective(R8_try_from, 7)
        /\ Bijective(R16_try_from, 3)
        /\ Bijective(R16Mem_try_from, 3)
        /\ Bijective(R16Stk_try_from, 3)
        /\ Bijective(Cond_try_from, 3)
        /\ NoInRangeSelectorError

\* LD B, [HL] (0x46) has been fetched: its source field z = 6 did not
\* convert, and B is as it was.
C23_Encoding6DoesNotConvert ==
    /\ Ran
    /\ Opcode = \h46
    /\ bi_z(Opcode) = 6
    /\ ~R8_try_from(6).ok
    /\ status = Error("R8", 6)
    /\ registers.bc = pre.registers.bc

\* Apart from encoding 6 of R8, the conversions are as stated.
SelectorsOtherThanHl ==
    Ran =>
        /\ \A v \in 0..7 \ {6} : R8_try_from(v).ok
        /\ \A v, w \in 0..7 \ {6} : v # w => R8_try_from(v).val # R8_try_from(w).val
        /\ \A v \in 8..255 : ~R8_try_from(v).ok
        /\ Bijective(R16_try_from, 3)
        /\ Bijective(R16Mem_try_from, 3)
        /\ Bijective(R16Stk_try_from, 3)
        /\ Bijective(Cond_try_from, 3)
        /\ (status.tag = "Err" /\ status.kind \in {"R8", "R16", "R16Mem", "R16Stk", "Cond"})
               => (status.kind = "R8" /\ status.val = 6)

\* The outcomes of push and of push_stack_pc on one Cpu and one value: the
\* same SP and the same memory.
PushesAgree(by_push, by_push_stack_pc) ==
    /\ ~by_push_stack_pc.panic
    /\ by_push.registers.sp = by_push_stack_pc.registers.sp
    /\ by_push.memory = by_push_stack_pc.memory

StackLayoutAsStated(k, v) ==
    /\ Pushing(k) =>
           /\ status.tag = "Cycles"
           /\ registers.sp = (pre.registers.sp + 65534) % 65536
           /\ get_byte(memory, registers.sp) = v % 256
           /\ get_byte(memory, (registers.sp + 1) % 65536) = v \div 256
           /\ PushesAgree(push(pre.registers, pre.memory, v),
                          push_stack_pc([pre.registers EXCEPT !.pc = v], pre.memory))
    /\ Popping(k) =>
           /\ status.tag = "Cycles"
           /\ PoppedValue(k, registers) =
                  Expected(k, get_byte(pre.memory, pre.registers.sp)
                              + 256 * get_byte(pre.memory, (pre.registers.sp + 1) % 65536))
           /\ registers.sp = (pre.registers.sp + 2) % 65536

(***************************************************************************)
(* C24.  Stack byte layout: PUSH r16stk, CALL and RST all decrement SP by  *)
(* 2 (mod 2^16) and leave the low byte of the pushed value at the new SP   *)
(* and the high byte at new SP + 1; push (PUSH) and push_stack_pc          *)
(* (CALL/RST) produce the same SP and memory for the same value and        *)
(* starting SP, for every SP including 0x0000 and 0x0001; POP/RET read the *)
(* low byte at SP and the high byte at SP + 1 and then add 2 to SP.        *)
(***************************************************************************)
C24_StackLayout == Ran => StackLayoutAsStated(Len(history), PushedValue(Len(history)))

\* RST 0x08 has run with SP = 0x0001 in a build that checks overflow:
\* push_stack_pc panicked and left a memory that push would not have left.
C24_PushesDisagreeAtSp1 ==
    /\ Ran
    /\ Opcode = \hCF
    /\ pre.registers.sp = \h0001
    /\ overflow_checks
    /\ status = Panicked
    /\ registers.sp = \hFFFF
    /\ memory # push(pre.registers, pre.memory, (pre.registers.pc + 1) % 65536).memory

\* Where the build wraps, and from every SP other than 0x0001, the layout
\* is as stated.
StackLayoutAwayFromSp1 ==
    (Ran /\ ~(overflow_checks /\ pre.registers.sp = \h0001))
        => StackLayoutAsStated(Len(history), PushedValue(Len(history)))

Sp16StoreAsStated ==
    /\ status.tag = "Cycles"
    /\ get_byte(memory, Target) = pre.registers.sp % 256
    /\ get_byte(memory, (Target + 1) % 65536) = pre.registers.sp \div 256

(***************************************************************************)
(* C25.  16-bit stores never fail: LD [imm16], SP stores the low byte of   *)
(* SP at the immediate address and the high byte at address + 1, and the   *)
(* store, like Memory::set_u16, succeeds for every address 0x0000-0xFFFF,  *)
(* the second byte going to 0x0000 when the address is 0xFFFF.             *)
(***************************************************************************)
C25_Sp16Store == (Ran /\ Opcode = \h08) => Sp16StoreAsStated

\* LD [0xFFFF], SP with SP = 0xEB89 in a build that checks overflow: 0x89 is
\* at 0xFFFF, `addr + 1` panicked, and the byte at 0x0000 is as it was.
C25_StoreAtFFFFPanics ==
    /\ Ran
    /\ Opcode = \h08
    /\ Target = \hFFFF
    /\ pre.registers.sp = \hEB89
    /\ overflow_checks
    /\ status = Panicked
    /\ get_byte(memory, \hFFFF) = \h89
    /\ get_byte(memory, \h0000) = get_byte(pre.memory, \h0000)

\* Below 0xFFFF, and at 0xFFFF where the build wraps, the store is as stated.
Sp16StoreBelowFFFF ==
    (Ran /\ Opcode = \h08 /\ ~(overflow_checks /\ Target = \hFFFF)) => Sp16StoreAsStated

(***************************************************************************)
(* C26.  No rollback on decode failure: when the byte at PC decodes to no  *)
(* instruction, run_next_instruction returns an error, PC stays advanced   *)
(* by exactly 1 past the offending byte, and every other register and      *)
(* every memory byte is unchanged; decoding never consumes operand bytes,  *)
(* so PC is advanced by exactly 1 at the point an instruction has been     *)
(* decoded (observed where a decoded instruction fails before its arm      *)
(* fetches anything: HALT, DI, EI).                                        *)
(***************************************************************************)
C26_NoRollback ==
    /\ (Ran /\ ~Instruction_try_from(Opcode).ok) =>
           /\ status.tag = "Err"
           /\ registers = [pre.registers EXCEPT !.pc = (pre.registers.pc + 1) % 65536]
           /\ memory = pre.memory
    /\ (Ran /\ Opcode \in {\h76, \hF3, \hFB}) =>
           /\ Instruction_try_from(Opcode).ok
           /\ status.tag = "Err"
           /\ registers.pc = (pre.registers.pc + 1) % 65536

\* LD [HL], imm8 (0x36) at 0xFFFD did not decode: PC is 0xFFFE, before the
\* operand byte, and nothing else has changed.
C26_OperandNotConsumed ==
    /\ Ran
    /\ Opcode = \h36
    /\ pre.registers.pc = \hFFFD
    /\ status.tag = "Err"
    /\ registers.pc = \hFFFE
    /\ registers.hl = pre.registers.hl
    /\ memory = pre.memory

\* LD r8,r8; LD r8,imm8; LD r16,imm16; LD [r16mem],A; LD A,[r16mem];
\* LD [imm16],SP; the LDH forms; LD [imm16],A; LD A,[imm16]; LD SP,HL; PUSH;
\* POP of BC, DE and HL.
LoadOpcodes ==
    ((\h40..\h7F) \ {\h76})
    \cup {\h06 + 8 * k : k \in 0..7}
    \cup {\h01, \h11, \h21, \h31}
    \cup R16MemStoreOpcodes \cup R16MemLoadOpcodes
    \cup {\h08, \hE0, \hE2, \hF0, \hF2, \hEA, \hFA, \hF9}
    \cup PushOpcodes \cup {\hC1, \hD1, \hE1}

(***************************************************************************)
(* C27.  Loads have no flag effects: every 8-bit and 16-bit load (LD       *)
(* r8,r8; LD r8,imm8; LD r16,imm16; LD [r16mem],A; LD A,[r16mem];          *)
(* LD [imm16],SP; LDH forms; LD [imm16],A; LD A,[imm16]; LD SP,HL; PUSH;   *)
(* POP of BC/DE/HL) leaves the F register unchanged; only LD HL,SP+e8 and  *)
(* ADD SP,e8 modify flags (they clear Z and N whatever they were).         *)
(***************************************************************************)
C27_LoadsKeepFlags ==
    /\ (Ran /\ Opcode \in LoadOpcodes) => registers.af % 256 = pre.registers.af % 256
    /\ (Returned /\ Opcode \in {\hE8, \hF8}) =>
           ~FlagBit(registers, 7) /\ ~FlagBit(registers, 6)

\* LDH A, [C] (0xF2) with every flag set has loaded another byte into A and
\* F is still 0xF0.
C27_LdhACKeepsFlags ==
    /\ Returned
    /\ Opcode = \hF2
    /\ pre.registers.af % 256 = \hF0
    /\ registers.af \div 256 # pre.registers.af \div 256
    /\ registers.af % 256 = \hF0

(***************************************************************************)
(* C28.  JR and taken JR cc set PC to (address of the byte after the       *)
(* displacement operand) + displacement, the operand byte being read as a  *)
(* signed 8-bit value and the sum wrapping modulo 2^16: JR +37 at address  *)
(* 0 gives PC = 39, and JR with operand byte 235 (-21) at address 39 gives *)
(* PC = 20.                                                                *)
(***************************************************************************)
C28_JrDisplacement ==
    (/\ Ran
     /\ \/ Opcode = \h18
        \/ Opcode \in JrCondOpcodes /\ ConditionHeld(Opcode, pre.registers)) =>
        /\ status.tag = "Cycles"
        /\ registers.pc =
               (pre.registers.pc + 2 + 65536
                + (IF Operand(1) >= 128 THEN Operand(1) - 256 ELSE Operand(1))) % 65536

\* JR +37 at 0 went to 39, and JR with operand 235 there went to 20.
C28_To39ThenTo20 ==
    /\ Len(history) = 2
    /\ OpcodeAt(1) = \h18 /\ history[1].registers.pc = 0
    /\ get_byte(history[1].memory, 1) = 37
    /\ pre.registers.pc = 39
    /\ Opcode = \h18 /\ Operand(1) = 235
    /\ status.tag = "Cycles"
    /\ registers.pc = 20

\* The bytes a conditional branch occupies: opcode and operands.
BranchLength(opcode) ==
    IF opcode \in JrCondOpcodes THEN 2
    ELSE IF opcode \in RetCondOpcodes THEN 1
    ELSE 3

(***************************************************************************)
(* C29.  A conditional branch whose condition is not met changes nothing   *)
(* except PC: JR cc, JP cc and CALL cc still consume their operand bytes   *)
(* (PC advances by 2, 3 and 3 from the opcode address), RET cc advances PC *)
(* by 1, and in every case SP, all other registers, the flags and all      *)
(* memory are unchanged.                                                   *)
(***************************************************************************)
C29_NotTakenOnlyMovesPc ==
    (Ran /\ Opcode \in CondOpcodes /\ ~ConditionHeld(Opcode, pre.registers)) =>
        /\ status.tag = "Cycles"
        /\ registers = [pre.registers EXCEPT
                            !.pc = (pre.registers.pc + BranchLength(Opcode)) % 65536]
        /\ memory = pre.memory

\* CALL NC (0xD4) with the carry flag set and SP = 0x0001: not taken, PC is
\* three bytes on, SP is still 0x0001 and nothing was pushed.
C29_CallNcNotTaken ==
    /\ Returned
    /\ Opcode = \hD4
    /\ FlagBit(pre.registers, 4)
    /\ pre.registers.sp = \h0001
    /\ registers.pc = (pre.registers.pc + 3) % 65536
    /\ registers.sp = \h0001
    /\ memory = pre.memory

(***************************************************************************)
(* The conformance harness's cycle-budget loop (test_file): it runs        *)
(* instructions while its budget `cycles` is above zero, subtracts the     *)
(* cycles of each one that returns Status::Cycles, and panics on the first *)
(* error.                                                                  *)
(***************************************************************************)
\* The largest usize.  The width of usize is the target's pointer width
\* (16, 32 or 64 bits); the model takes the narrowest.
USIZE_MAX == 65535

\* The largest budget a test starts with.
MaxCycles == 4

\* `cycles -= usize::from(c)`: None for the panic of a build that checks
\* overflow, the difference modulo 2^width in a build that does not.
sub_usize(a, b, checks) ==
    IF a >= b THEN a - b
    ELSE IF checks THEN None
    ELSE a - b + USIZE_MAX + 1

\* The match on what run_next_instruction returned: Ok(Status::Cycles(c))
\* is subtracted from the budget, Err(e) panics (the status stays the error
\* and the loop is over), any other status leaves the budget alone.
match_result(out, left) ==
    /\ registers' = out.registers
    /\ memory' = out.memory
    /\ status' = IF left = None THEN Panicked ELSE out.status
    /\ cycles' = IF left = None THEN cycles ELSE left

test_file_body(out) ==
    match_result(out, IF out.status.tag = "Cycles"
                      THEN sub_usize(cycles, out.status.val, overflow_checks)
                      ELSE cycles)

\* One turn of `while cycles > 0 { match cpu.run_next_instruction() {..} }`.
TestFile ==
    /\ cycles > 0
    /\ status.tag \notin {"Err", "Panic"}
    /\ test_file_body(run_next_instruction(registers, memory))
    /\ UNCHANGED <<history, overflow_checks>>

\* Programs at 0x0100 in an otherwise empty memory: JP 0x0100 (4 cycles, on
\* itself), JR -2 (3 cycles, on itself), NOPs, the prefixed RLC B followed
\* by NOPs, and a byte that is no instruction.
BudgetPrograms ==
    { <<\hC3, \h00, \h01>>, <<\h18, \hFE>>, <<\h00>>, <<\hCB, \h00>>, <<\hD3>> }

\* setup(&test) and `let mut cycles = test.cycles.len()`.
InitTestFile ==
    \E prog \in BudgetPrograms, budget \in 1..MaxCycles :
        /\ registers = Registers(0, 0, 0, 0, \hFFFE, \h0100)
        /\ memory = StoreAt(EmptyMemory, \h0100, prog)
        /\ status = [tag |-> "Init", val |-> 0, kind |-> ""]
        /\ history = <<>>
        /\ overflow_checks \in BOOLEAN
        /\ cycles = budget

SpecTestFile == InitTestFile /\ [][TestFile]_vars

\* The loop is sequential code: while it can take another turn, it does.
SpecTestFileFair == SpecTestFile /\ WF_vars(TestFile)

\* What the caller was handed is never Prefix or Break, and a cycle count
\* handed back is at least 1.
CyclesAtLeastOne ==
    /\ status.tag \notin {"Prefix", "Break"}
    /\ status.tag = "Cycles" => status.val >= 1

\* The loop is over: the budget is exhausted, or an error or a panic ended
\* it.
TestFileDone == cycles = 0 \/ status.tag \in {"Err", "Panic"}

(***************************************************************************)
(* C30.  Every successful run_next_instruction returns Status::Cycles(c)   *)
(* with c >= 1, never Prefix or Break and never the 0-cycle cost of the    *)
(* prefix byte, so a caller that subtracts the returned cycles from a      *)
(* finite budget until it is exhausted, stopping on the first error,       *)
(* always terminates: every turn of the loop hands the caller a status     *)
(* that is no Prefix, no Break and no Cycles(0), and either ends the loop  *)
(* or leaves a budget strictly smaller than before.                        *)
(***************************************************************************)
C30_BudgetLoopProgress ==
    [][CyclesAtLeastOne' /\ (TestFileDone' \/ cycles' < cycles)]_vars

\* An instruction cost more cycles than the budget had left, and the budget
\* wrapped to a value above any a test starts with: the loop goes on.
C30_BudgetWrapped ==
    /\ status.tag = "Cycles"
    /\ cycles > MaxCycles
    /\ ~overflow_checks

\* Every instruction the general specification runs to success costs at
\* least one cycle, and the caller never sees Prefix or Break.
SuccessfulRunsCostCycles == Ran => CyclesAtLeastOne

\* In a build that checks overflow every turn ends the loop or lowers the
\* budget.
ProgressWithOverflowChecks ==
    [][overflow_checks => (TestFileDone' \/ cycles' < cycles)]_vars

\* The loop comes to its end.  Under SpecTestFileFair this fails in a build
\* without overflow checks: from a budget of 1, JP 0x0100 on itself takes
\* the budget through the 16384 values of 1 modulo 4 and back, never to 0.
BudgetLoopTerminates == <>TestFileDone

\* A build that checks overflow ends the loop: by exhausting the budget, by
\* the error, or by the panic of the subtraction.
TerminatesWithOverflowChecks == overflow_checks => BudgetLoopTerminates

====
